---------------------------- MODULE Spec2Model ----------------------------
(***************************************************************************)
(* A model of one invocation of the command runner: Justfile::run          *)
(* evaluates the top-level assignments (AssignmentEvaluator), then runs    *)
(* each target recipe after its dependencies (run_recipe), and Recipe::run *)
(* binds the arguments and executes the body line by line or as a shebang  *)
(* script.                                                                 *)
(*                                                                         *)
(* Strings are sequences of atoms.  An atom stands for a run of characters *)
(* that the program never splits ("echo", "x"); the characters the program *)
(* does look at are atoms of their own: "@", " ", "\\", "$", "#!", and BQ  *)
(* for the backquote.                                                      *)
(***************************************************************************)
EXTENDS Integers, Sequences, FiniteSets, TLC

\* ------------------------------------------------------------------ bounds

\* exit codes of a child are 0..MaxCode
MaxCode == 2
\* a recipe of the parameter scenarios has at most MaxParams parameters
MaxParams == 2
\* an invocation passes at most MaxArgs arguments to the last target
MaxArgs == 3
\* a recipe header of the dependency scenarios lists at most MaxDeps names
MaxDeps == 2
\* an invocation names at most MaxTargets targets
MaxTargets == 2
\* a recipe body of the line scenarios has at most MaxLines lines
MaxLines == 2

\* a source file that is compiled has at most MaxItems items
MaxItems == 3

\* a recipe body that is parsed has at most MaxBody lines
MaxBody == 3

\* ------------------------------------------------------------ maps, strings

EmptyMap == <<>>

Put(f, k, v) == [x \in (DOMAIN f) \cup {k} |-> IF x = k THEN v ELSE f[x]]

\* the names of the model, in the order BTreeMap iterates them
NameOrder == <<"a", "b", "c", "d", "p", "q", "r", "s">>

SortedKeys(S) == SelectSeq(NameOrder, LAMBDA n : n \in S)

RECURSIVE Join(_, _)
\* Vec<&str>::join(sep)
Join(strs, sep) ==
  IF strs = <<>> THEN <<>>
  ELSE IF Len(strs) = 1 THEN strs[1]
  ELSE strs[1] \o sep \o Join(Tail(strs), sep)

RECURSIVE Flatten(_)
Flatten(strs) == IF strs = <<>> THEN <<>> ELSE Head(strs) \o Flatten(Tail(strs))

\* the backquote character
BQ == "BQ"

\* Option<T>
None == <<>>
Some(x) == <<x>>

\* --------------------------------------------------------------- expressions

Variable(n) == [kind |-> "Variable", name |-> n]
String(s) == [kind |-> "String", cooked |-> s]
Backtick(raw, tok) == [kind |-> "Backtick", raw |-> raw, token |-> tok]
Concatination(l, r) == [kind |-> "Concatination", lhs |-> l, rhs |-> r]
Group(e) == [kind |-> "Group", expression |-> e]
Call(n, args) == [kind |-> "Call", name |-> n, arguments |-> args]

Text(s) == [kind |-> "Text", text |-> s]
Interpolation(e) == [kind |-> "Expression", expression |-> e]

\* Fragment::continuation: a text fragment that ends in a backslash
continuation(fragment) ==
  /\ fragment.kind = "Text"
  /\ fragment.text # <<>>
  /\ fragment.text[Len(fragment.text)] = "\\"

\* ------------------------------------------------------------------- errors

NoOutputError == [t |-> "none", code |-> 0]

RuntimeError(kind, recipe, token, line_number, code, oe, message) ==
  [kind |-> kind, recipe |-> recipe, token |-> token, line_number |-> line_number,
   code |-> code, output_error |-> oe, message |-> message]

NoError == RuntimeError("none", "", 0, None, 0, NoOutputError, "")
ErrBacktick(token, oe) == RuntimeError("Backtick", "", token, None, 0, oe, "")
ErrCode(recipe, line_number, code) ==
  RuntimeError("Code", recipe, 0, line_number, code, NoOutputError, "")
ErrSignal(recipe, line_number, signal) ==
  RuntimeError("Signal", recipe, 0, line_number, signal, NoOutputError, "")
ErrUnknown(recipe, line_number) ==
  RuntimeError("Unknown", recipe, 0, line_number, 0, NoOutputError, "")
ErrIoError(recipe) == RuntimeError("IoError", recipe, 0, None, 0, NoOutputError, "")
ErrShebang(recipe) == RuntimeError("Shebang", recipe, 0, None, 0, NoOutputError, "")
ErrTmpdirIoError(recipe) ==
  RuntimeError("TmpdirIoError", recipe, 0, None, 0, NoOutputError, "")
ErrCygpath(recipe) == RuntimeError("Cygpath", recipe, 0, None, 0, NoOutputError, "")
ErrInternal(message) == RuntimeError("Internal", "", 0, None, 0, NoOutputError, message)
ErrFunctionCall(message) ==
  RuntimeError("FunctionCall", "", 0, None, 0, NoOutputError, message)
ErrArgumentCountMismatch(recipe, found) ==
  RuntimeError("ArgumentCountMismatch", recipe, 0, None, found, NoOutputError, "")
ErrUnknownOverrides == RuntimeError("UnknownOverrides", "", 0, None, 0, NoOutputError, "")
ErrUnknownRecipes == RuntimeError("UnknownRecipes", "", 0, None, 0, NoOutputError, "")

\* a code() that knows the Code error only
code_of_recipes(error) == IF error.kind = "Code" THEN Some(error.code) ELSE None

\* RuntimeError::code
code(error) ==
  IF error.kind = "Code" THEN Some(error.code)
  ELSE IF error.kind = "Backtick" /\ error.output_error.t = "Code"
       THEN Some(error.output_error.code)
  ELSE None


\* ------------------------------------------------------------ child processes

\* what the outside world does to a child: it exits with a code, is killed by a
\* signal (which the platform can name or not), cannot be launched, or (a
\* backtick only) exits 0 with output that is not UTF-8
Fate(t, c) == [t |-> t, code |-> c]

StatusFates ==
  {Fate("exit", c) : c \in 0..MaxCode}
    \cup {Fate("signal", 2), Fate("unknown", 0), Fate("io", 0)}

OutputFates == StatusFates \cup {Fate("utf8", 0)}

\* the environment variables a command expands: every name after a "$"
ShellReads(cmd) == {cmd[i + 1] : i \in {j \in 1..(Len(cmd) - 1) : cmd[j] = "$"}}

RECURSIVE ShellExpand(_, _)
ShellExpand(cmd, env) ==
  IF cmd = <<>> THEN <<>>
  ELSE IF Head(cmd) = "$" /\ Len(cmd) >= 2
       THEN env[cmd[2]] \o ShellExpand(Tail(Tail(cmd)), env)
  ELSE <<Head(cmd)>> \o ShellExpand(Tail(cmd), env)

\* `sh -cu <cmd>`: with -u the expansion of an unset variable is an error, so
\* the child cannot exit 0; `echo` writes its expanded arguments and a newline
Child(cmd, env, fate) ==
  IF fate.t \in {"exit", "utf8"} /\ ~(ShellReads(cmd) \subseteq DOMAIN env)
  THEN [t |-> "exit", code |-> IF fate.code = 0 THEN 1 ELSE fate.code,
        stdout |-> <<>>, utf8 |-> TRUE]
  ELSE IF fate.t = "utf8"
  THEN [t |-> "exit", code |-> 0, stdout |-> <<>>, utf8 |-> FALSE]
  ELSE [t |-> fate.t, code |-> fate.code,
        stdout |-> IF fate.t = "exit" /\ fate.code = 0 /\ cmd # <<>> /\ Head(cmd) = "echo"
                   THEN ShellExpand(Tail(cmd), env) \o <<"\n">>
                   ELSE <<>>,
        utf8 |-> TRUE]

\* CommandExt::export_environment_variables: the dotenv entries, then every
\* exported name with its value in scope (exports win)
export_environment_variables(scope, dotenv, exports) ==
  LET exported == exports \cap DOMAIN scope
  IN  [n \in (DOMAIN dotenv) \cup exported |->
         IF n \in exported THEN scope[n] ELSE dotenv[n]]

\* output(cmd): stdout without its trailing newline, or the OutputError
output(child) ==
  IF child.t = "io" THEN [ok |-> FALSE, value |-> <<>>, oe |-> [t |-> "Io", code |-> 0]]
  ELSE IF child.t = "signal"
  THEN [ok |-> FALSE, value |-> <<>>, oe |-> [t |-> "Signal", code |-> child.code]]
  ELSE IF child.t = "unknown"
  THEN [ok |-> FALSE, value |-> <<>>, oe |-> [t |-> "Unknown", code |-> 0]]
  ELSE IF child.code # 0
  THEN [ok |-> FALSE, value |-> <<>>, oe |-> [t |-> "Code", code |-> child.code]]
  ELSE IF ~child.utf8
  THEN [ok |-> FALSE, value |-> <<>>, oe |-> [t |-> "Utf8", code |-> 0]]
  ELSE [ok |-> TRUE,
        value |-> IF child.stdout # <<>> /\ child.stdout[Len(child.stdout)] = "\n"
                  THEN SubSeq(child.stdout, 1, Len(child.stdout) - 1)
                  ELSE child.stdout,
        oe |-> NoOutputError]

\* ------------------------------------------------------------------ the log

\* what an invocation does that the outside can see, in order:
\*   "recipe"   Recipe::run is entered for recipe `name`
\*   "expr"     the expression of top-level assignment `name` is evaluated
\*   "backtick" a child is spawned for backtick token n with command `text`
\*   "print"    `text` is written to the diagnostic stream
\*   "spawn"    a child is spawned for command `text` of recipe `name`, line n
\*   "exit"     the child spawned last ended: `text` holds how, n its code
\*   "tmpdir", "script", "cleanup"  the temporary directory of a shebang recipe
\*   "signal"   the terminal sent signal n to the process
Ev(e, name, text, env, n) == [ev |-> e, name |-> name, text |-> text, env |-> env, n |-> n]

\* --------------------------------------------------------- InterruptHandler

\* the handler of an invocation: the number of guards that are open, the signal
\* that has been received (0 for none) and the code the process has exited with
\* on a signal (0 while it has not)
InterruptHandler == [blocks |-> 0, interrupted |-> 0, exit |-> 0]

\* InterruptHandler::block: a guard opens
InterruptHandler_block(h) == [h EXCEPT !.blocks = @ + 1]

\* InterruptHandler::interrupt: inside a guard the signal is recorded, outside
\* the process exits with 128 + signo
InterruptHandler_interrupt(h, signo) ==
  IF h.blocks > 0
  THEN [h EXCEPT !.interrupted = signo]
  ELSE [h EXCEPT !.interrupted = signo, !.exit = 128 + signo]

\* InterruptHandler::unblock: a guard closes, and when it was the last one a
\* recorded signal makes the process exit with 128 + signo
InterruptHandler_unblock(h) ==
  IF h.blocks = 1 /\ h.interrupted # 0
  THEN [h EXCEPT !.blocks = 0, !.exit = 128 + h.interrupted]
  ELSE [h EXCEPT !.blocks = @ - 1]

\* ------------------------------------------------------- AssignmentEvaluator

\* std::process::exit does not return: what stands for its result travels up
\* the callers as an error does, and the process is gone
Exited == RuntimeError("exit", "", 0, None, 0, NoOutputError, "")

Res(ok, value, error, st) == [ok |-> ok, value |-> value, error |-> error, st |-> st]

RECURSIVE evaluate_expression(_, _, _, _)
RECURSIVE evaluate_assignment(_, _, _)
RECURSIVE evaluate_call_arguments(_, _, _, _)

\* Function::evaluate
Function_evaluate(ev, name, call_arguments) ==
  IF name = "arch" /\ Len(call_arguments) = 0 THEN [ok |-> TRUE, value |-> <<"arch">>]
  ELSE IF name = "env_var_or_default" /\ Len(call_arguments) = 2
  THEN [ok |-> TRUE,
        value |-> IF Len(call_arguments[1]) = 1 /\ call_arguments[1][1] \in DOMAIN ev.dotenv
                  THEN ev.dotenv[call_arguments[1][1]]
                  ELSE call_arguments[2]]
  ELSE [ok |-> FALSE, value |-> <<>>]

\* run_backtick: the value, or RuntimeError::Backtick with the token
backtick_result(out, token, st) ==
  IF out.ok THEN Res(TRUE, out.value, NoError, st)
  ELSE Res(FALSE, <<>>, ErrBacktick(token, out.oe), st)

\* run_backtick: the child has ended, and its output is read
backtick_child(child, token, st) ==
  backtick_result(output(child), token,
                  [st EXCEPT !.log = Append(@, Ev("exit", "", <<child.t>>, EmptyMap, child.code))])

\* a signal of the terminal arrives, or none does (0)
received(st, signo) ==
  IF signo = 0 THEN st
  ELSE [st EXCEPT !.handler = InterruptHandler_interrupt(@, signo),
                  !.log = Append(@, Ev("signal", "", <<>>, EmptyMap, signo))]

\* a process that has exited waits for nothing
waited(child, token, st) ==
  IF st.handler.exit # 0 THEN Res(FALSE, <<>>, Exited, st)
  ELSE backtick_child(child, token, st)

\* run_backtick: output(cmd) starts the child and waits for it, and a signal may
\* arrive during the wait
backtick_output(ev, st, raw, token) ==
  waited(
    Child(raw, export_environment_variables(ev.scope, ev.dotenv, ev.exports), ev.fate[token]),
    token,
    received([st EXCEPT !.log = Append(@, Ev("backtick", "", raw,
                                             export_environment_variables(ev.scope, ev.dotenv,
                                                                          ev.exports),
                                             token))],
             ev.signal[token]))

\* InterruptHandler::guard: the guard closes when the function has returned
unblocked(r) ==
  IF InterruptHandler_unblock(r.st.handler).exit # 0
  THEN Res(FALSE, <<>>, Exited, [r.st EXCEPT !.handler = InterruptHandler_unblock(@)])
  ELSE [r EXCEPT !.st.handler = InterruptHandler_unblock(@)]

\* a run_backtick that waits for its child outside a guard
run_backtick_unguarded(ev, st, raw, token) ==
  backtick_output(ev, st, raw, token)

\* AssignmentEvaluator::run_backtick: InterruptHandler::guard(|| output(cmd))
run_backtick(ev, st, raw, token) ==
  unblocked(backtick_output(ev, [st EXCEPT !.handler = InterruptHandler_block(@)], raw, token))

\* a Backtick case that runs the child whatever dry_run is
evaluate_backtick_always(ev, st, raw, token) == run_backtick(ev, st, raw, token)

\* evaluate_expression, Backtick: dry-run gives the source text between
\* backquotes, and nothing runs
evaluate_backtick(ev, st, raw, token) ==
  IF ev.dry_run
  THEN Res(TRUE, <<BQ>> \o raw \o <<BQ>>, NoError, st)
  ELSE run_backtick(ev, st, raw, token)

\* evaluate_assignment: self.evaluated.insert(name, value)
insert_evaluated(r, name) ==
  IF r.ok
  THEN Res(TRUE, <<>>, NoError, [r.st EXCEPT !.evaluated = Put(@, name, r.value)])
  ELSE r

\* an evaluate_assignment that does not look at the overrides
evaluate_assignment_ignores_overrides(ev, st, name) ==
  IF name \in DOMAIN st.evaluated THEN Res(TRUE, <<>>, NoError, st)
  ELSE IF name \in DOMAIN ev.assignments
  THEN insert_evaluated(
         evaluate_expression(
           ev, [st EXCEPT !.log = Append(@, Ev("expr", name, <<>>, EmptyMap, 0))],
           ev.assignments[name], EmptyMap),
         name)
  ELSE Res(FALSE, <<>>, ErrInternal("attempted to evaluated unknown assignment"), st)

\* an evaluate_assignment that does not look at what it has evaluated
evaluate_assignment_uncached(ev, st, name) ==
  IF name \in DOMAIN ev.assignments
  THEN IF name \in DOMAIN ev.overrides
       THEN Res(TRUE, <<>>, NoError,
                [st EXCEPT !.evaluated = Put(@, name, ev.overrides[name])])
       ELSE insert_evaluated(
              evaluate_expression(
                ev, [st EXCEPT !.log = Append(@, Ev("expr", name, <<>>, EmptyMap, 0))],
                ev.assignments[name], EmptyMap),
              name)
  ELSE Res(FALSE, <<>>, ErrInternal("attempted to evaluated unknown assignment"), st)

\* AssignmentEvaluator::evaluate_assignment
evaluate_assignment(ev, st, name) ==
  IF name \in DOMAIN st.evaluated THEN Res(TRUE, <<>>, NoError, st)
  ELSE IF name \in DOMAIN ev.assignments
  THEN IF name \in DOMAIN ev.overrides
       THEN Res(TRUE, <<>>, NoError,
                [st EXCEPT !.evaluated = Put(@, name, ev.overrides[name])])
       ELSE insert_evaluated(
              evaluate_expression(
                ev, [st EXCEPT !.log = Append(@, Ev("expr", name, <<>>, EmptyMap, 0))],
                ev.assignments[name], EmptyMap),
              name)
  ELSE Res(FALSE, <<>>, ErrInternal("attempted to evaluated unknown assignment"), st)

\* a value put in front of the values that follow it, or their error
cons_value(value, rs) ==
  IF ~rs.ok THEN rs ELSE Res(TRUE, <<value>> \o rs.value, NoError, rs.st)

\* a string put in front of the string that follows it, or its error
concat_value(value, rs) ==
  IF ~rs.ok THEN rs ELSE Res(TRUE, value \o rs.value, NoError, rs.st)

\* the arguments after the first one, unless the first one failed
call_arguments_rest(ev, r, exprs, arguments) ==
  IF ~r.ok THEN r
  ELSE cons_value(r.value, evaluate_call_arguments(ev, r.st, exprs, arguments))

\* the arguments of a call, left to right, up to the first error
evaluate_call_arguments(ev, st, exprs, arguments) ==
  IF exprs = <<>> THEN Res(TRUE, <<>>, NoError, st)
  ELSE call_arguments_rest(ev, evaluate_expression(ev, st, Head(exprs), arguments),
                           Tail(exprs), arguments)

\* evaluate_expression, Call: Function::evaluate on the evaluated arguments
call_function(ev, name, rs) ==
  IF ~rs.ok THEN rs
  ELSE IF Function_evaluate(ev, name, rs.value).ok
  THEN Res(TRUE, Function_evaluate(ev, name, rs.value).value, NoError, rs.st)
  ELSE Res(FALSE, <<>>, ErrFunctionCall("bad call"), rs.st)

\* evaluate_expression, Variable: self.evaluated[name] after evaluate_assignment
evaluated_value(r, name) ==
  IF r.ok THEN Res(TRUE, r.st.evaluated[name], NoError, r.st) ELSE r

\* evaluate_expression, Concatination: the right side, unless the left failed
concatination_rhs(ev, l, rhs, arguments) ==
  IF ~l.ok THEN l
  ELSE concat_value(l.value, evaluate_expression(ev, l.st, rhs, arguments))

\* a Variable case that does not look at the arguments
evaluate_variable_unargued(ev, st, name, arguments) ==
  IF name \in DOMAIN st.evaluated THEN Res(TRUE, st.evaluated[name], NoError, st)
  ELSE IF name \in DOMAIN ev.scope THEN Res(TRUE, ev.scope[name], NoError, st)
  ELSE IF name \in DOMAIN ev.assignments
  THEN evaluated_value(evaluate_assignment(ev, st, name), name)
  ELSE Res(FALSE, <<>>, ErrInternal("attempted to evaluate undefined variable"), st)

\* evaluate_expression, Variable: the value is that of the first of
\* self.evaluated, self.scope, self.assignments (evaluated and inserted into
\* self.evaluated first) and the arguments that has the name
evaluate_variable(ev, st, name, arguments) ==
  IF name \in DOMAIN st.evaluated THEN Res(TRUE, st.evaluated[name], NoError, st)
  ELSE IF name \in DOMAIN ev.scope THEN Res(TRUE, ev.scope[name], NoError, st)
  ELSE IF name \in DOMAIN ev.assignments
  THEN evaluated_value(evaluate_assignment(ev, st, name), name)
  ELSE IF name \in DOMAIN arguments THEN Res(TRUE, arguments[name], NoError, st)
  ELSE Res(FALSE, <<>>, ErrInternal("attempted to evaluate undefined variable"), st)

\* AssignmentEvaluator::evaluate_expression
evaluate_expression(ev, st, expression, arguments) ==
  CASE expression.kind = "Variable" -> evaluate_variable(ev, st, expression.name, arguments)
    [] expression.kind = "Call" ->
         call_function(ev, expression.name,
                       evaluate_call_arguments(ev, st, expression.arguments, arguments))
    [] expression.kind = "String" -> Res(TRUE, expression.cooked, NoError, st)
    [] expression.kind = "Backtick" ->
         evaluate_backtick(ev, st, expression.raw, expression.token)
    [] expression.kind = "Concatination" ->
         concatination_rhs(ev, evaluate_expression(ev, st, expression.lhs, arguments),
                           expression.rhs, arguments)
    [] expression.kind = "Group" ->
         evaluate_expression(ev, st, expression.expression, arguments)

RECURSIVE evaluate_line(_, _, _, _)

\* the fragments after the first one, unless the first one failed
line_rest(ev, r, fragments, arguments) ==
  IF ~r.ok THEN r
  ELSE concat_value(r.value, evaluate_line(ev, r.st, fragments, arguments))

\* AssignmentEvaluator::evaluate_line
evaluate_line(ev, st, line, arguments) ==
  IF line = <<>> THEN Res(TRUE, <<>>, NoError, st)
  ELSE line_rest(ev,
                 IF Head(line).kind = "Text"
                 THEN Res(TRUE, Head(line).text, NoError, st)
                 ELSE evaluate_expression(ev, st, Head(line).expression, arguments),
                 Tail(line), arguments)

\* ------------------------------------------------------------------- parser

Parameter(name, default, variadic) ==
  [name |-> name, default |-> default, variadic |-> variadic]

Parsed(ok, error, value) == [ok |-> ok, error |-> error, value |-> value]

\* the token of a recipe an error is raised at: its lexeme and its place in the
\* recipe, the index-th parameter or dependency of the header or the first token
\* of the index-th line of the body
Offending(lexeme, part, index) == [lexeme |-> lexeme, part |-> part, index |-> index]

RECURSIVE recipe_parameters_after_variadic(_, _, _, _)
\* a parameter loop that does not remember that it has parsed a variadic
\* parameter
recipe_parameters_after_variadic(decls, parameters, parsed_parameter_with_default, parsed_variadic_parameter) ==
  IF decls = <<>> THEN Parsed(TRUE, "", parameters)
  ELSE LET d == Head(decls)
       IN  IF \E i \in 1..Len(parameters) : parameters[i].name = d.name
           THEN Parsed(FALSE, "DuplicateParameter",
                       Offending(d.name, "parameter", Len(parameters) + 1))
           ELSE IF parsed_parameter_with_default /\ d.default = None
           THEN Parsed(FALSE, "RequiredParameterFollowsDefaultParameter",
                       Offending(d.name, "parameter", Len(parameters) + 1))
           ELSE recipe_parameters_after_variadic(
                  Tail(decls),
                  Append(parameters, Parameter(d.name, d.default, d.plus)),
                  parsed_parameter_with_default \/ d.default # None,
                  d.plus)

RECURSIVE recipe_parameters(_, _, _, _)
\* Parser::recipe, the parameter loop.  decls: the parameters as written, each
\* [name, plus, default]; the result is the Vec<Parameter>, or the error kind
\* and the parameter's token
recipe_parameters(decls, parameters, parsed_parameter_with_default, parsed_variadic_parameter) ==
  IF decls = <<>> THEN Parsed(TRUE, "", parameters)
  ELSE LET d == Head(decls)
       IN  IF parsed_variadic_parameter
           THEN Parsed(FALSE, "ParameterFollowsVariadicParameter",
                       Offending(d.name, "parameter", Len(parameters) + 1))
           ELSE IF \E i \in 1..Len(parameters) : parameters[i].name = d.name
           THEN Parsed(FALSE, "DuplicateParameter",
                       Offending(d.name, "parameter", Len(parameters) + 1))
           ELSE IF parsed_parameter_with_default /\ d.default = None
           THEN Parsed(FALSE, "RequiredParameterFollowsDefaultParameter",
                       Offending(d.name, "parameter", Len(parameters) + 1))
           ELSE recipe_parameters(
                  Tail(decls),
                  Append(parameters, Parameter(d.name, d.default, d.plus)),
                  parsed_parameter_with_default \/ d.default # None,
                  d.plus)

\* a parser that pushes each dependency to the front of the list
push_dependency_front(dependencies, dependency) == <<dependency>> \o dependencies

\* Parser::recipe: one accepted dependency name joins the list
push_dependency(dependencies, dependency) == Append(dependencies, dependency)

RECURSIVE recipe_dependencies(_, _)
\* Parser::recipe, the dependency loop over the names after the colon
recipe_dependencies(tokens, dependencies) ==
  IF tokens = <<>> THEN Parsed(TRUE, "", dependencies)
  ELSE IF \E i \in 1..Len(dependencies) : dependencies[i] = Head(tokens)
  THEN Parsed(FALSE, "DuplicateDependency",
              Offending(Head(tokens), "dependency", Len(dependencies) + 1))
  ELSE recipe_dependencies(Tail(tokens), push_dependency(dependencies, Head(tokens)))

\* text.starts_with(c)
starts_with(text, c) == text # <<>> /\ Head(text) = c

RECURSIVE recipe_body_no_continuation(_, _, _)
\* a body loop that does not look at the end of the previous line
recipe_body_no_continuation(body, lines, shebang) ==
  IF body = <<>> THEN Parsed(TRUE, "", [lines |-> lines, shebang |-> shebang])
  ELSE LET line == Head(body)
           first_is_text == line # <<>> /\ line[1].kind = "Text"
       IN  IF /\ first_is_text /\ lines # <<>> /\ ~shebang
              /\ (starts_with(line[1].text, " ") \/ starts_with(line[1].text, "\t"))
           THEN Parsed(FALSE, "ExtraLeadingWhitespace",
                       Offending(line[1].text, "text", Len(lines) + 1))
           ELSE recipe_body_no_continuation(
                  Tail(body), Append(lines, line),
                  shebang \/ (first_is_text /\ lines = <<>> /\ starts_with(line[1].text, "#!")))

RECURSIVE recipe_body_any_line(_, _, _)
\* a body loop that takes the #! of any line for a shebang
recipe_body_any_line(body, lines, shebang) ==
  IF body = <<>> THEN Parsed(TRUE, "", [lines |-> lines, shebang |-> shebang])
  ELSE LET line == Head(body)
           first_is_text == line # <<>> /\ line[1].kind = "Text"
           after_continuation ==
             /\ lines # <<>>
             /\ lines[Len(lines)] # <<>>
             /\ continuation(lines[Len(lines)][Len(lines[Len(lines)])])
       IN  IF /\ first_is_text /\ lines # <<>> /\ ~shebang /\ ~after_continuation
              /\ (starts_with(line[1].text, " ") \/ starts_with(line[1].text, "\t"))
           THEN Parsed(FALSE, "ExtraLeadingWhitespace",
                       Offending(line[1].text, "text", Len(lines) + 1))
           ELSE recipe_body_any_line(
                  Tail(body), Append(lines, line),
                  shebang \/ (first_is_text /\ starts_with(line[1].text, "#!")))

RECURSIVE recipe_body(_, _, _)
\* Parser::recipe, the body loop: the lines as fragments, the shebang flag, and
\* ExtraLeadingWhitespace for an indented line that is neither in a shebang
\* recipe nor after a continuation
recipe_body(body, lines, shebang) ==
  IF body = <<>> THEN Parsed(TRUE, "", [lines |-> lines, shebang |-> shebang])
  ELSE LET line == Head(body)
           first_is_text == line # <<>> /\ line[1].kind = "Text"
           after_continuation ==
             /\ lines # <<>>
             /\ lines[Len(lines)] # <<>>
             /\ continuation(lines[Len(lines)][Len(lines[Len(lines)])])
       IN  IF /\ first_is_text /\ lines # <<>> /\ ~shebang /\ ~after_continuation
              /\ (starts_with(line[1].text, " ") \/ starts_with(line[1].text, "\t"))
           THEN Parsed(FALSE, "ExtraLeadingWhitespace",
                       Offending(line[1].text, "text", Len(lines) + 1))
           ELSE recipe_body(
                  Tail(body), Append(lines, line),
                  shebang \/ (first_is_text /\ lines = <<>> /\ starts_with(line[1].text, "#!")))

RECURSIVE pop_empty_lines(_)
\* Parser::recipe: trailing empty lines are dropped
pop_empty_lines(lines) ==
  IF lines # <<>> /\ lines[Len(lines)] = <<>>
  THEN pop_empty_lines(SubSeq(lines, 1, Len(lines) - 1))
  ELSE lines

\* Parser::recipe: the Recipe of a header (name on line `line`, quiet when it
\* begins with @, parameters, dependencies) and a body, or the error
parse_recipe(name, line, quiet, decls, dependency_tokens, body) ==
  LET ps == recipe_parameters(decls, <<>>, FALSE, FALSE)
      ds == recipe_dependencies(dependency_tokens, <<>>)
      bs == recipe_body(body, <<>>, FALSE)
  IN  IF ~ps.ok THEN ps
      ELSE IF ~ds.ok THEN ds
      ELSE IF ~bs.ok THEN bs
      ELSE Parsed(TRUE, "",
             [name |-> name, line_number |-> line, doc |-> None, quiet |-> quiet,
              parameters |-> ps.value, dependencies |-> ds.value,
              lines |-> pop_empty_lines(bs.value.lines), shebang |-> bs.value.shebang])

\* ------------------------------------------------------------------- recipe

\* Recipe::min_arguments
min_arguments(r) ==
  Cardinality({i \in 1..Len(r.parameters) : r.parameters[i].default = None})

\* usize::MAX - 1, beyond every argument count of the model
Unbounded == 1000000

\* Recipe::max_arguments
max_arguments(r) ==
  IF \E i \in 1..Len(r.parameters) : r.parameters[i].variadic
  THEN Unbounded
  ELSE Len(r.parameters)

\* Recipe::argument_range contains n
argument_range(r, n) == min_arguments(r) <= n /\ n <= max_arguments(r)

\* Verbosity
loquacious(verbosity) == verbosity \in {"Loquacious", "Grandiloquent"}
grandiloquent(verbosity) == verbosity = "Grandiloquent"

\* a variadic value joined without the space
variadic_value_unspaced(rest) == Join(rest, <<>>)

\* Recipe::run: the value of a variadic parameter when arguments remain
variadic_value(rest) == Join(rest, <<" ">>)

\* the outcome of one iteration of the binding loop
Bound(r, rest) ==
  [ok |-> r.ok, error |-> r.error, value |-> r.value, rest |-> rest, st |-> r.st]

\* a binding loop that does not advance past the argument it has bound
bind_parameter_keeps_rest(ev, st, parameter, rest) ==
  IF rest = <<>>
  THEN IF parameter.default # None
       THEN Bound(evaluate_expression(ev, st, parameter.default[1], EmptyMap), rest)
       ELSE Bound(Res(FALSE, <<>>, ErrInternal("missing parameter without default"), st), rest)
  ELSE IF parameter.variadic
  THEN Bound(Res(TRUE, variadic_value(rest), NoError, st), <<>>)
  ELSE Bound(Res(TRUE, rest[1], NoError, st), rest)

\* Recipe::run, one iteration of the binding loop
bind_parameter(ev, st, parameter, rest) ==
  IF rest = <<>>
  THEN IF parameter.default # None
       THEN Bound(evaluate_expression(ev, st, parameter.default[1], EmptyMap), rest)
       ELSE Bound(Res(FALSE, <<>>, ErrInternal("missing parameter without default"), st), rest)
  ELSE IF parameter.variadic
  THEN Bound(Res(TRUE, variadic_value(rest), NoError, st), <<>>)
  ELSE Bound(Res(TRUE, rest[1], NoError, st), Tail(rest))

Binding(ok, error, argument_map, rest, st) ==
  [ok |-> ok, error |-> error, argument_map |-> argument_map, rest |-> rest, st |-> st]

RECURSIVE bind_parameters(_, _, _, _, _)

\* Recipe::run, the binding loop after one parameter: argument_map.insert, or
\* the error of its default
parameters_rest(ev, b, parameters, argument_map) ==
  IF ~b.ok THEN Binding(FALSE, b.error, argument_map, b.rest, b.st)
  ELSE bind_parameters(ev, b.st, Tail(parameters), b.rest,
                       Put(argument_map, Head(parameters).name, b.value))

\* Recipe::run, the binding loop over self.parameters
bind_parameters(ev, st, parameters, rest, argument_map) ==
  IF parameters = <<>> THEN Binding(TRUE, NoError, argument_map, rest, st)
  ELSE parameters_rest(ev, bind_parameter(ev, st, Head(parameters), rest), parameters,
                       argument_map)

\* an echo condition with OR in the place of XOR
command_printed_or(dry_run, verbosity, quiet_command, recipe_quiet, config_quiet) ==
  \/ dry_run
  \/ loquacious(verbosity)
  \/ ~((quiet_command \/ recipe_quiet) \/ config_quiet)

\* Recipe::run: whether a command of a line-by-line recipe is echoed
command_printed(dry_run, verbosity, quiet_command, recipe_quiet, config_quiet) ==
  \/ dry_run
  \/ loquacious(verbosity)
  \/ ~((quiet_command # recipe_quiet) \/ config_quiet)

RECURSIVE join_lines(_, _, _, _, _, _, _)

Joined(ok, error, evaluated_, i, line_number, st) ==
  [ok |-> ok, error |-> error, evaluated |-> evaluated_, i |-> i,
   line_number |-> line_number, st |-> st]

\* an inner loop that keeps the backslash of a continuation
join_line_unpopped(ev, r, lines_, i, line_number, evaluated_, arguments) ==
  IF ~r.ok THEN Joined(FALSE, r.error, evaluated_, i + 1, line_number + 1, r.st)
  ELSE IF lines_[i] # <<>> /\ continuation(lines_[i][Len(lines_[i])])
  THEN join_lines(ev, r.st, lines_, i + 1, line_number + 1, evaluated_ \o r.value, arguments)
  ELSE Joined(TRUE, NoError, evaluated_ \o r.value, i + 1, line_number + 1, r.st)

\* Recipe::run, the inner loop after a line is evaluated: the line joins the
\* command; after a continuation its last character is popped and the loop
\* goes on
join_line(ev, r, lines_, i, line_number, evaluated_, arguments) ==
  IF ~r.ok THEN Joined(FALSE, r.error, evaluated_, i + 1, line_number + 1, r.st)
  ELSE IF lines_[i] # <<>> /\ continuation(lines_[i][Len(lines_[i])])
  THEN join_lines(ev, r.st, lines_, i + 1, line_number + 1,
                  SubSeq(evaluated_ \o r.value, 1, Len(evaluated_ \o r.value) - 1), arguments)
  ELSE Joined(TRUE, NoError, evaluated_ \o r.value, i + 1, line_number + 1, r.st)

\* Recipe::run, the inner loop: body lines from index i are evaluated and
\* joined while they end in a continuation
join_lines(ev, st, lines_, i, line_number, evaluated_, arguments) ==
  IF i > Len(lines_) THEN Joined(TRUE, NoError, evaluated_, i, line_number, st)
  ELSE join_line(ev, evaluate_line(ev, st, lines_[i], arguments), lines_, i, line_number,
                 evaluated_, arguments)

RECURSIVE evaluate_lines(_, _, _, _)

\* the lines after the first one, unless the first one failed
lines_rest(ev, r, lines_, arguments) ==
  IF ~r.ok THEN r
  ELSE cons_value(r.value, evaluate_lines(ev, r.st, lines_, arguments))

\* Recipe::run, shebang mode: every body line is evaluated, in order
evaluate_lines(ev, st, lines_, arguments) ==
  IF lines_ = <<>> THEN Res(TRUE, <<>>, NoError, st)
  ELSE lines_rest(ev, evaluate_line(ev, st, Head(lines_), arguments), Tail(lines_), arguments)

\* an exit-status match that takes the exit code 1 for success
status_error_lenient(recipe, line_number, child) ==
  IF child.t = "io"
  THEN IF line_number = None THEN ErrShebang(recipe) ELSE ErrIoError(recipe)
  ELSE IF child.t = "exit"
  THEN IF child.code > 1 THEN ErrCode(recipe, line_number, child.code) ELSE NoError
  ELSE IF child.t = "signal" THEN ErrSignal(recipe, line_number, child.code)
  ELSE ErrUnknown(recipe, line_number)

\* error_from_signal and the exit-status match of Recipe::run: the error of a
\* child that did not exit with 0, NoError when it did
status_error(recipe, line_number, child) ==
  IF child.t = "io"
  THEN IF line_number = None THEN ErrShebang(recipe) ELSE ErrIoError(recipe)
  ELSE IF child.t = "exit"
  THEN IF child.code # 0 THEN ErrCode(recipe, line_number, child.code) ELSE NoError
  ELSE IF child.t = "signal" THEN ErrSignal(recipe, line_number, child.code)
  ELSE ErrUnknown(recipe, line_number)

\* Shebang::new: the line parses when it starts with #! and names an interpreter
Shebang_new(shebang_line) == starts_with(shebang_line, "#!") /\ Len(shebang_line) >= 2

\* a script whose blank lines stop one short of the source line
script_text_short(evaluated_lines, line_number) ==
  evaluated_lines[1] \o <<"\n">>
    \o [k \in 1..line_number |-> "\n"]
    \o Flatten([k \in 1..(Len(evaluated_lines) - 1) |-> evaluated_lines[k + 1] \o <<"\n">>])

\* Recipe::run: the text of the script file: the shebang line, a blank line
\* for each of 1..(line_number + 2), then the other evaluated lines, every
\* line followed by a newline
script_text(evaluated_lines, line_number) ==
  evaluated_lines[1] \o <<"\n">>
    \o [k \in 1..(line_number + 1) |-> "\n"]
    \o Flatten([k \in 1..(Len(evaluated_lines) - 1) |-> evaluated_lines[k + 1] \o <<"\n">>])

\* Recipe::run: the evaluator of a recipe knows no assignments and no
\* overrides; the evaluated top-level assignments are its scope
recipe_evaluator(cfg, scope_, exports, fate, signal) ==
  [assignments |-> EmptyMap, overrides |-> EmptyMap, scope |-> scope_,
   exports |-> exports, dotenv |-> cfg.dotenv, dry_run |-> cfg.dry_run, fate |-> fate,
   signal |-> signal]

\* ----------------------------------------------------------------- justfile

RECURSIVE References(_)
\* the names the assignment resolver follows from an expression: through
\* concatenations, groups and the arguments of calls
References(e) ==
  CASE e.kind = "Variable" -> {e.name}
    [] e.kind = "Concatination" -> References(e.lhs) \cup References(e.rhs)
    [] e.kind = "Group" -> References(e.expression)
    [] e.kind = "Call" -> UNION {References(e.arguments[i]) : i \in 1..Len(e.arguments)}
    [] OTHER -> {}

RECURSIVE Variables_next(_, _)
\* Variables::next until it returns None: the top of the stack is popped; a
\* variable is yielded, a concatenation pushes lhs then rhs, a group pushes its
\* expression, and a string, a backtick or a call ends the iteration
Variables_next(stack_, yielded) ==
  IF stack_ = <<>> THEN yielded
  ELSE CASE stack_[Len(stack_)].kind = "Variable" ->
              Variables_next(SubSeq(stack_, 1, Len(stack_) - 1),
                             Append(yielded, stack_[Len(stack_)].name))
         [] stack_[Len(stack_)].kind = "Concatination" ->
              Variables_next(SubSeq(stack_, 1, Len(stack_) - 1)
                               \o <<stack_[Len(stack_)].lhs, stack_[Len(stack_)].rhs>>,
                             yielded)
         [] stack_[Len(stack_)].kind = "Group" ->
              Variables_next(SubSeq(stack_, 1, Len(stack_) - 1)
                               \o <<stack_[Len(stack_)].expression>>,
                             yielded)
         [] OTHER -> yielded

\* Variables::new(root), iterated to its end: the names it yields, in order
Variables(root) == Variables_next(<<root>>, <<>>)

RECURSIVE Reaches(_, _, _)
\* the nodes reached from the set S in at most k steps along `edges`
Reaches(edges, S, k) ==
  IF k = 0 THEN S
  ELSE Reaches(edges, S \cup UNION {edges[n] : n \in S}, k - 1)

Acyclic(edges) ==
  \A n \in DOMAIN edges : n \notin Reaches(edges, edges[n], Cardinality(DOMAIN edges))

\* AssignmentResolver::resolve_assignments: every reference is defined and the
\* references form no cycle
resolve_assignments(assignments) ==
  LET edges == [n \in DOMAIN assignments |-> References(assignments[n])]
  IN  /\ \A n \in DOMAIN edges : edges[n] \subseteq DOMAIN assignments
      /\ Acyclic(edges)

\* the names the expression fragments of a body refer to
BodyVariables(lines) ==
  UNION {UNION {IF lines[i][j].kind = "Expression"
                THEN {Variables(lines[i][j].expression)[k] :
                        k \in 1..Len(Variables(lines[i][j].expression))}
                ELSE {} : j \in 1..Len(lines[i])} : i \in 1..Len(lines)}

\* RecipeResolver::resolve_recipes: every dependency is a recipe, dependencies
\* form no cycle, every variable of a body is an assignment or a parameter
resolve_recipes(recipes, assignments) ==
  LET edges == [n \in DOMAIN recipes |->
                  {recipes[n].dependencies[i] : i \in 1..Len(recipes[n].dependencies)}]
  IN  /\ \A n \in DOMAIN edges : edges[n] \subseteq DOMAIN recipes
      /\ Acyclic(edges)
      /\ \A n \in DOMAIN recipes :
           BodyVariables(recipes[n].lines) \subseteq
             (DOMAIN assignments) \cup
               {recipes[n].parameters[i].name : i \in 1..Len(recipes[n].parameters)}

\* Parser::justfile, the checks after the recipe resolver: no parameter has the
\* name of an assignment, no dependency has parameters
justfile_checks(recipes, assignments) ==
  \A n \in DOMAIN recipes :
    /\ \A i \in 1..Len(recipes[n].parameters) :
         recipes[n].parameters[i].name \notin DOMAIN assignments
    /\ \A i \in 1..Len(recipes[n].dependencies) :
         recipes[recipes[n].dependencies[i]].parameters = <<>>

\* Parser::justfile returns a Justfile: every recipe parsed and every check passed
Compiles(parsed, assignments) ==
  /\ \A n \in DOMAIN parsed : parsed[n].ok
  /\ LET recipes == [n \in DOMAIN parsed |-> parsed[n].value]
     IN  /\ resolve_assignments(assignments)
         /\ resolve_recipes(recipes, assignments)
         /\ justfile_checks(recipes, assignments)

Justfile(parsed, assignments, exports) ==
  [recipes |-> [n \in DOMAIN parsed |-> parsed[n].value],
   assignments |-> assignments, exports |-> exports]

\* ---------------------------------------------------------- Parser::justfile

\* a token of the source, as far as an error is anchored at it: its lexeme, its
\* line (from 0) and its place in the line: the name of the item ("name"), the
\* index-th parameter or dependency of a recipe header, the text at the
\* beginning of a body line
Token(lexeme, line, part, index) ==
  [lexeme |-> lexeme, line |-> line, part |-> part, index |-> index]

\* token.error(kind): the kind with its fields, anchored at the token
CompilationError(kind, token, data) == [kind |-> kind, token |-> token, data |-> data]

NoCompilationError == CompilationError("none", Token("", 0, "", 0), <<>>)

\* the items of a source, as Parser::justfile takes them from the token stream:
\* a recipe (header and body lines), an alias, an assignment; `equals` tells
\* that the item is written with = for :=
RecipeItem(name, quiet, decls, dependencies, body) ==
  [kind |-> "recipe", name |-> name, doc |-> None, quiet |-> quiet, decls |-> decls,
   dependencies |-> dependencies, body |-> body]

\* a recipe with the comment on the line before its header
Documented(item, comment) == [item EXCEPT !.doc = comment]

AliasItem(name, target, equals) ==
  [kind |-> "alias", name |-> name, target |-> target, equals |-> equals]

AssignmentItem(name, export, expression, equals) ==
  [kind |-> "assignment", name |-> name, export |-> export, expression |-> expression,
   equals |-> equals]

\* the lines of the source an item takes
Height(item) == IF item.kind = "recipe" THEN 1 + Len(item.body) ELSE 1

\* Parser::new: nothing is parsed; `line` is the line of the next token
Parser_new(items) ==
  [items |-> items, line |-> 0, recipes |-> EmptyMap, assignments |-> EmptyMap,
   assignment_tokens |-> EmptyMap, aliases |-> EmptyMap, alias_tokens |-> EmptyMap,
   exports |-> {}, warnings |-> <<>>, pc |-> "items", error |-> NoCompilationError]

\* return Err(..): the compilation is over
Parser_err(p, error) == [p EXCEPT !.pc = "done", !.error = error]

\* the item is parsed, and the next token is the beginning of the next item
Parser_ok(p) == [p EXCEPT !.items = Tail(@), !.line = @ + Height(Head(p.items))]

\* the token of a recipe that parse_recipe found an error at
recipe_token(line, offending) ==
  Token(offending.lexeme,
        IF offending.part = "text" THEN line + offending.index ELSE line,
        offending.part, offending.index)

RECURSIVE trim_start(_)
\* str::trim_start
trim_start(text) ==
  IF text # <<>> /\ Head(text) \in {" ", "\t"} THEN trim_start(Tail(text)) ELSE text

RECURSIVE trim_end(_)
\* str::trim_end
trim_end(text) ==
  IF text # <<>> /\ text[Len(text)] \in {" ", "\t"}
  THEN trim_end(SubSeq(text, 1, Len(text) - 1))
  ELSE text

\* Parser::recipe: doc.map(|t| t.lexeme()[1..].trim())
recipe_doc(comment) ==
  IF comment = None THEN None ELSE Some(trim_end(trim_start(Tail(comment[1]))))

\* a Parser::recipe that does not look for a recipe of the same name
Parser_recipe_overwrites(p, item) ==
  LET r == parse_recipe(item.name, p.line, item.quiet, item.decls, item.dependencies,
                        item.body)
  IN  IF ~r.ok
      THEN Parser_err(p, CompilationError(r.error, recipe_token(p.line, r.value), <<>>))
      ELSE Parser_ok([p EXCEPT !.recipes =
                                    Put(@, item.name,
                                        [r.value EXCEPT !.doc = recipe_doc(item.doc)])])

\* Parser::recipe: DuplicateRecipe with the line of the first recipe, the errors
\* of the header and of the body, or the recipe joins the map
Parser_recipe(p, item) ==
  IF item.name \in DOMAIN p.recipes
  THEN Parser_err(p, CompilationError("DuplicateRecipe", Token(item.name, p.line, "name", 0),
                                      <<p.recipes[item.name].line_number>>))
  ELSE LET r == parse_recipe(item.name, p.line, item.quiet, item.decls, item.dependencies,
                             item.body)
       IN  IF ~r.ok
           THEN Parser_err(p, CompilationError(r.error, recipe_token(p.line, r.value), <<>>))
           ELSE Parser_ok([p EXCEPT !.recipes =
                                    Put(@, item.name,
                                        [r.value EXCEPT !.doc = recipe_doc(item.doc)])])

\* a parser that warns of = in assignments only
deprecated_equals_assignments(p, item) ==
  IF item.equals /\ item.kind = "assignment" THEN [p EXCEPT !.warnings = Append(@, p.line)]
  ELSE p

\* Parser::justfile: the warning for an item written with = ; the warning
\* holds the = token, which is on the line of the item
deprecated_equals(p, item) ==
  IF item.equals THEN [p EXCEPT !.warnings = Append(@, p.line)] ELSE p

\* Parser::assignment: DuplicateVariable, or the expression joins the map and
\* the name the exports
Parser_assignment(p, item) ==
  IF item.name \in DOMAIN p.assignments
  THEN Parser_err(p, CompilationError("DuplicateVariable", Token(item.name, p.line, "name", 0),
                                      <<>>))
  ELSE Parser_ok([p EXCEPT !.exports = IF item.export THEN @ \cup {item.name} ELSE @,
                           !.assignments = Put(@, item.name, item.expression),
                           !.assignment_tokens =
                             Put(@, item.name, Token(item.name, p.line, "name", 0))])

\* Alias
Alias(name, line_number, target) ==
  [name |-> name, line_number |-> line_number, target |-> target]

\* a Parser::alias that looks for the target among the recipes parsed so far
Parser_alias_declared_target(p, item) ==
  IF item.name \in DOMAIN p.aliases
  THEN Parser_err(p, CompilationError("DuplicateAlias", Token(item.name, p.line, "name", 0),
                                      <<p.aliases[item.name].line_number>>))
  ELSE IF item.target \notin DOMAIN p.recipes
  THEN Parser_err(p, CompilationError("UnknownAliasTarget",
                                      Token(item.name, p.line, "name", 0), <<>>))
  ELSE Parser_ok([p EXCEPT !.aliases = Put(@, item.name, Alias(item.name, p.line, item.target)),
                           !.alias_tokens =
                             Put(@, item.name, Token(item.name, p.line, "name", 0))])

\* Parser::alias: DuplicateAlias with the line of the first alias, or the alias
\* joins the map
Parser_alias(p, item) ==
  IF item.name \in DOMAIN p.aliases
  THEN Parser_err(p, CompilationError("DuplicateAlias", Token(item.name, p.line, "name", 0),
                                      <<p.aliases[item.name].line_number>>))
  ELSE Parser_ok([p EXCEPT !.aliases = Put(@, item.name, Alias(item.name, p.line, item.target)),
                           !.alias_tokens =
                             Put(@, item.name, Token(item.name, p.line, "name", 0))])

RECURSIVE ReferenceSeq(_)
\* the names an expression refers to, in the order the assignment resolver
\* meets them: through concatenations, groups and the arguments of calls
ReferenceSeq(e) ==
  CASE e.kind = "Variable" -> <<e.name>>
    [] e.kind = "Concatination" -> ReferenceSeq(e.lhs) \o ReferenceSeq(e.rhs)
    [] e.kind = "Group" -> ReferenceSeq(e.expression)
    [] e.kind = "Call" -> Flatten([i \in 1..Len(e.arguments) |-> ReferenceSeq(e.arguments[i])])
    [] OTHER -> <<>>

\* a circle that is the whole stack and the name again
circle_of_stack(stack_, name) == stack_ \o <<name>>

\* the circle of a name that is on the stack: the path from its first
\* occurrence to the top, and the name again
circle(stack_, name) ==
  SubSeq(stack_, CHOOSE i \in 1..Len(stack_) :
                   stack_[i] = name /\ \A j \in 1..(i - 1) : stack_[j] # name,
         Len(stack_)) \o <<name>>

RECURSIVE AssignmentResolver_resolve(_, _, _, _)
RECURSIVE AssignmentResolver_references(_, _, _, _)

\* AssignmentResolver: the references of an expression, one after the other,
\* up to the first error; r holds the stack of the names being resolved, the
\* names that are resolved and the error
AssignmentResolver_references(assignments, tokens, r, names) ==
  IF names = <<>> \/ r.error # NoCompilationError THEN r
  ELSE AssignmentResolver_references(
         assignments, tokens,
         AssignmentResolver_resolve(assignments, tokens, r, Head(names)), Tail(names))

\* AssignmentResolver: a name is resolved once; a name on the stack is a circle,
\* a name that is no assignment is undefined
AssignmentResolver_resolve(assignments, tokens, r, name) ==
  IF name \in r.evaluated THEN r
  ELSE IF \E i \in 1..Len(r.stack) : r.stack[i] = name
  THEN [r EXCEPT !.error = CompilationError("CircularVariableDependency", tokens[name],
                                            circle(r.stack, name))]
  ELSE IF name \notin DOMAIN assignments
  THEN [r EXCEPT !.error =
          CompilationError("UndefinedVariable",
                           Token(name, tokens[r.stack[Len(r.stack)]].line, "expression", 0),
                           <<>>)]
  ELSE LET inner == AssignmentResolver_references(
                      assignments, tokens, [r EXCEPT !.stack = Append(@, name)],
                      ReferenceSeq(assignments[name]))
       IN  IF inner.error # NoCompilationError THEN inner
           ELSE [inner EXCEPT !.stack = r.stack, !.evaluated = @ \cup {name}]

\* AssignmentResolver::resolve_assignments: every assignment in the order of
\* the map; the error, NoCompilationError for none
AssignmentResolver_resolve_assignments(assignments, tokens) ==
  AssignmentResolver_references(
    assignments, tokens,
    [stack |-> <<>>, evaluated |-> {}, error |-> NoCompilationError],
    SortedKeys(DOMAIN assignments)).error

\* RecipeResolver::resolve_recipes: the error of the first recipe, in the order
\* of the map, that has an unknown dependency, is on a circle of dependencies or
\* refers in its body to a name that is neither an assignment nor a parameter
RecipeResolver_resolve_recipes(recipes, assignments) ==
  LET edges == [n \in DOMAIN recipes |->
                  {recipes[n].dependencies[i] : i \in 1..Len(recipes[n].dependencies)}]
      kind(n) ==
        IF ~(edges[n] \subseteq DOMAIN recipes) THEN "UnknownDependency"
        ELSE IF ~(BodyVariables(recipes[n].lines) \subseteq
                    (DOMAIN assignments) \cup
                      {recipes[n].parameters[i].name : i \in 1..Len(recipes[n].parameters)})
        THEN "UndefinedVariable"
        ELSE "none"
      bad == SelectSeq(SortedKeys(DOMAIN recipes), LAMBDA n : kind(n) # "none")
      closed == \A n \in DOMAIN recipes : edges[n] \subseteq DOMAIN recipes
      circular == SelectSeq(SortedKeys(DOMAIN recipes),
                            LAMBDA n : n \in Reaches(edges, edges[n], Cardinality(DOMAIN edges)))
  IN  IF bad # <<>>
      THEN CompilationError(kind(bad[1]), Token(bad[1], recipes[bad[1]].line_number, "name", 0),
                            <<>>)
      ELSE IF closed /\ circular # <<>>
      THEN CompilationError("CircularRecipeDependency",
                            Token(circular[1], recipes[circular[1]].line_number, "name", 0),
                            <<>>)
      ELSE NoCompilationError

\* a check of dependencies that lets a recipe pass when every parameter of it
\* has a default
has_parameters_without_default(recipe) ==
  \E i \in 1..Len(recipe.parameters) : recipe.parameters[i].default = None

\* Parser::justfile: !self.recipes[dependency.lexeme()].parameters.is_empty()
has_parameters(recipe) == recipe.parameters # <<>>

\* Parser::justfile, the loop over one recipe after the resolvers: the errors
\* of its parameters, then of its dependencies
recipe_errors(recipes, assignments, recipe) ==
  SelectSeq([i \in 1..Len(recipe.parameters) |->
               IF recipe.parameters[i].name \in DOMAIN assignments
               THEN CompilationError("ParameterShadowsVariable",
                                     Token(recipe.parameters[i].name, recipe.line_number,
                                           "parameter", i), <<>>)
               ELSE NoCompilationError],
            LAMBDA e : e # NoCompilationError)
    \o SelectSeq([i \in 1..Len(recipe.dependencies) |->
                    IF has_parameters(recipes[recipe.dependencies[i]])
                    THEN CompilationError("DependencyHasParameters",
                                          Token(recipe.dependencies[i], recipe.line_number,
                                                "dependency", i), <<>>)
                    ELSE NoCompilationError],
                 LAMBDA e : e # NoCompilationError)

\* Parser::justfile, the loop over the recipes after the resolvers: the first
\* error in the order of the map
Parser_checks(recipes, assignments) ==
  LET errors == Flatten([k \in 1..Len(SortedKeys(DOMAIN recipes)) |->
                           recipe_errors(recipes, assignments,
                                         recipes[SortedKeys(DOMAIN recipes)[k]])])
  IN  IF errors = <<>> THEN NoCompilationError ELSE errors[1]

\* AliasResolver::resolve_aliases: the errors an alias can be rejected with: its
\* name is the name of a recipe, its target is no recipe
alias_errors(recipes, tokens, alias) ==
  (IF alias.name \in DOMAIN recipes
   THEN {CompilationError("AliasShadowsRecipe", tokens[alias.name],
                          <<recipes[alias.name].line_number>>)}
   ELSE {})
    \cup (IF alias.target \notin DOMAIN recipes
          THEN {CompilationError("UnknownAliasTarget", tokens[alias.name], <<>>)}
          ELSE {})

\* AliasResolver::resolve_aliases: the errors it can return; the order of its
\* checks is not given, any error of any alias may be the one
AliasResolver_resolve_aliases(aliases, recipes, tokens) ==
  UNION {alias_errors(recipes, tokens, aliases[n]) : n \in DOMAIN aliases}

\* ------------------------------------------------------------------ Display

\* a printed text is the sequence of its lines, each the sequence of its
\* characters: " ", punctuation, the double quote, the backquote BQ, "{{",
\* "}}", and a letter for each name or word

\* the double quote
DQ == "DQ"

RECURSIVE Expression_fmt(_)
\* Display for Expression: a name, a string between its quotes, a backtick
\* between backquotes, lhs + rhs, (expression), name(argument, argument)
Expression_fmt(e) ==
  CASE e.kind = "Variable" -> <<e.name>>
    [] e.kind = "String" -> <<DQ>> \o e.cooked \o <<DQ>>
    [] e.kind = "Backtick" -> <<BQ>> \o e.raw \o <<BQ>>
    [] e.kind = "Concatination" ->
         Expression_fmt(e.lhs) \o <<" ", "+", " ">> \o Expression_fmt(e.rhs)
    [] e.kind = "Group" -> <<"(">> \o Expression_fmt(e.expression) \o <<")">>
    [] e.kind = "Call" ->
         <<e.name, "(">>
           \o Join([i \in 1..Len(e.arguments) |-> Expression_fmt(e.arguments[i])],
                   <<",", " ">>)
           \o <<")">>

\* Display for Parameter: +name=default
Parameter_fmt(parameter) ==
  (IF parameter.variadic THEN <<"+">> ELSE <<>>)
    \o <<parameter.name>>
    \o (IF parameter.default = None THEN <<>>
        ELSE <<"=">> \o Expression_fmt(parameter.default[1]))

\* Display for Recipe, the pieces of one line
Fragment_fmt(piece) ==
  IF piece.kind = "Text" THEN piece.text
  ELSE <<"{{">> \o Expression_fmt(piece.expression) \o <<"}}">>

\* a Display for Recipe that does not indent the lines of the body
Recipe_fmt_unindented(recipe) ==
  (IF recipe.doc = None THEN <<>> ELSE <<<<"#", " ">> \o recipe.doc[1]>>)
    \o
  <<(IF recipe.quiet THEN <<"@">> ELSE <<>>)
      \o <<recipe.name>>
      \o Flatten([i \in 1..Len(recipe.parameters) |->
                    <<" ">> \o Parameter_fmt(recipe.parameters[i])])
      \o <<":">>
      \o Flatten([i \in 1..Len(recipe.dependencies) |-> <<" ", recipe.dependencies[i]>>])>>
    \o [i \in 1..Len(recipe.lines) |->
          Flatten([j \in 1..Len(recipe.lines[i]) |-> Fragment_fmt(recipe.lines[i][j])])]

\* Display for Recipe: the line of the doc after # and a space, the header (@
\* for a quiet recipe, the name, a space before each parameter, the colon, a
\* space before each dependency) and the lines of the body, four spaces before
\* each line that has pieces
Recipe_fmt(recipe) ==
  (IF recipe.doc = None THEN <<>> ELSE <<<<"#", " ">> \o recipe.doc[1]>>)
    \o
  <<(IF recipe.quiet THEN <<"@">> ELSE <<>>)
      \o <<recipe.name>>
      \o Flatten([i \in 1..Len(recipe.parameters) |->
                    <<" ">> \o Parameter_fmt(recipe.parameters[i])])
      \o <<":">>
      \o Flatten([i \in 1..Len(recipe.dependencies) |-> <<" ", recipe.dependencies[i]>>])>>
    \o [i \in 1..Len(recipe.lines) |->
          IF recipe.lines[i] = <<>> THEN <<>>
          ELSE <<" ", " ", " ", " ">>
                 \o Flatten([j \in 1..Len(recipe.lines[i]) |->
                               Fragment_fmt(recipe.lines[i][j])])]

\* Display for Alias
Alias_fmt(alias) == <<<<"alias", " ", alias.name, " ", ":=", " ", alias.target>>>>

\* Display for Justfile, one assignment
Assignment_fmt(name, expression, export) ==
  <<(IF export THEN <<"export", " ">> ELSE <<>>)
      \o <<name, " ", ":=", " ">> \o Expression_fmt(expression)>>

\* Display for Justfile: the assignments, the aliases and the recipes, each kind
\* in the order of its map, an empty line between two items
Justfile_fmt(j) ==
  Join([k \in 1..Len(SortedKeys(DOMAIN j.assignments)) |->
          LET n == SortedKeys(DOMAIN j.assignments)[k]
          IN  Assignment_fmt(n, j.assignments[n], n \in j.exports)]
         \o [k \in 1..Len(SortedKeys(DOMAIN j.aliases)) |->
               Alias_fmt(j.aliases[SortedKeys(DOMAIN j.aliases)[k]])]
         \o [k \in 1..Len(SortedKeys(DOMAIN j.recipes)) |->
               Recipe_fmt(j.recipes[SortedKeys(DOMAIN j.recipes)[k]])],
       <<<<>>>>)

\* -------------------------------------------------------------------- Lexer

\* a token of the lexer: its kind and its lexeme
Lexeme(kind, lexeme) == [kind |-> kind, lexeme |-> lexeme]

\* the kinds of the punctuation
Punctuation ==
  [c \in {":", ":=", "=", ",", "(", ")", "+", "@"} |->
     CASE c = ":" -> "Colon" [] c = ":=" -> "ColonEquals" [] c = "=" -> "Equals"
       [] c = "," -> "Comma" [] c = "(" -> "ParenL" [] c = ")" -> "ParenR"
       [] c = "+" -> "Plus" [] c = "@" -> "At"]

\* the place of the first c in a text, 0 for none
Find(text, c) ==
  IF \E i \in 1..Len(text) : text[i] = c
  THEN CHOOSE i \in 1..Len(text) : text[i] = c /\ \A j \in 1..(i - 1) : text[j] # c
  ELSE 0

\* the text after its first n characters
Drop(text, n) == SubSeq(text, n + 1, Len(text))

RECURSIVE lex_normal(_)
\* the lexer in its default mode, on the rest of a line: spaces are dropped, a
\* comment runs to the end of the line, a string or a backtick to the next
\* quote of its kind, and what is no punctuation is a name
lex_normal(text) ==
  IF text = <<>> THEN <<>>
  ELSE LET c == Head(text)
           close == Find(Tail(text), c)
       IN  CASE c \in {" ", "\t"} -> lex_normal(Tail(text))
             [] c = "#" -> <<Lexeme("Comment", text)>>
             [] c \in {DQ, BQ} ->
                  IF close = 0
                  THEN <<Lexeme(IF c = DQ THEN "UnterminatedString" ELSE "UnterminatedBacktick",
                                text)>>
                  ELSE <<Lexeme(IF c = DQ THEN "StringCooked" ELSE "Backtick",
                                SubSeq(Tail(text), 1, close - 1))>>
                         \o lex_normal(Drop(Tail(text), close))
             [] c \in DOMAIN Punctuation ->
                  <<Lexeme(Punctuation[c], c)>> \o lex_normal(Tail(text))
             [] OTHER -> <<Lexeme("Name", c)>> \o lex_normal(Tail(text))

RECURSIVE lex_body(_)
\* the lexer on a body line after its indentation: the text up to {{ is a Text
\* token, and from {{ to }} the lexer is in its default mode
lex_body(text) ==
  IF text = <<>> THEN <<>>
  ELSE IF Head(text) = "{{"
  THEN IF Find(text, "}}") = 0
       THEN <<Lexeme("UnterminatedInterpolation", text)>>
       ELSE <<Lexeme("InterpolationStart", "{{")>>
              \o lex_normal(SubSeq(text, 2, Find(text, "}}") - 1))
              \o <<Lexeme("InterpolationEnd", "}}")>>
              \o lex_body(Drop(text, Find(text, "}}")))
  ELSE IF Find(text, "{{") = 0 THEN <<Lexeme("Text", text)>>
  ELSE <<Lexeme("Text", SubSeq(text, 1, Find(text, "{{") - 1))>>
         \o lex_body(Drop(text, Find(text, "{{") - 1))

RECURSIVE leading_whitespace(_)
\* the whitespace a line begins with
leading_whitespace(text) ==
  IF text # <<>> /\ Head(text) \in {" ", "\t"}
  THEN <<Head(text)>> \o leading_whitespace(Tail(text))
  ELSE <<>>

\* text.starts_with(prefix)
has_prefix(text, prefix) ==
  Len(prefix) <= Len(text) /\ SubSeq(text, 1, Len(prefix)) = prefix

RECURSIVE lex_lines(_, _)
\* the lexer on the lines of a text, the last of which has no newline; indent:
\* the indentation of the body the lexer is in, empty outside a body.  An
\* empty line is an Eol; the first line with leading whitespace after a header
\* gives Indent with that whitespace, and Line; a line with the same prefix
\* gives Line; a line without leading whitespace ends the body with Dedent
lex_lines(lines, indent) ==
  IF lines = <<>>
  THEN (IF indent # <<>> THEN <<Lexeme("Dedent", <<>>)>> ELSE <<>>) \o <<Lexeme("Eof", <<>>)>>
  ELSE LET line == Head(lines)
           eol == IF Len(lines) > 1 THEN <<Lexeme("Eol", "\n")>> ELSE <<>>
           white == leading_whitespace(line)
       IN  IF line = <<>> THEN eol \o lex_lines(Tail(lines), indent)
           ELSE IF white = <<>>
           THEN (IF indent # <<>> THEN <<Lexeme("Dedent", <<>>)>> ELSE <<>>)
                  \o lex_normal(line) \o eol \o lex_lines(Tail(lines), <<>>)
           ELSE IF indent = <<>>
           THEN <<Lexeme("Indent", white), Lexeme("Line", <<>>)>>
                  \o lex_body(Drop(line, Len(white))) \o eol \o lex_lines(Tail(lines), white)
           ELSE IF has_prefix(line, indent)
           THEN <<Lexeme("Line", <<>>)>>
                  \o lex_body(Drop(line, Len(indent))) \o eol \o lex_lines(Tail(lines), indent)
           ELSE <<Lexeme("InconsistentLeadingWhitespace", white)>>

\* Lexer::lex
Lexer_lex(lines) == lex_lines(lines, <<>>)

\* ------------------------------------------------------- Parser, the tokens

\* the result of a parsing function: the value and the tokens that are left, or
\* the token that was not expected
Result(ok, value, rest) == [ok |-> ok, value |-> value, rest |-> rest]

\* Parser::unexpected_token
unexpected_token(tokens) == Result(FALSE, Head(tokens), tokens)

\* Parser::peek
peek(tokens, kind) == tokens # <<>> /\ Head(tokens).kind = kind

\* Parser::expect_eol, after the comment: an Eol is taken or an Eof left
expect_eol_after_comment(tokens) ==
  IF peek(tokens, "Eol") THEN Result(TRUE, <<>>, Tail(tokens))
  ELSE IF peek(tokens, "Eof") THEN Result(TRUE, <<>>, tokens)
  ELSE unexpected_token(tokens)

\* Parser::expect_eol: a comment is skipped, then an Eol is taken or an Eof left
expect_eol(tokens) ==
  expect_eol_after_comment(IF peek(tokens, "Comment") THEN Tail(tokens) ELSE tokens)

RECURSIVE Parser_value(_)
RECURSIVE Parser_expression(_)
RECURSIVE Parser_arguments(_, _)

\* Parser::value, a call: the closing parenthesis after the arguments
value_call(name, arguments) ==
  IF ~arguments.ok THEN arguments
  ELSE IF ~peek(arguments.rest, "ParenR") THEN unexpected_token(arguments.rest)
  ELSE Result(TRUE, Call(name, arguments.value), Tail(arguments.rest))

\* Parser::value, a group: the closing parenthesis after the expression
value_group(expression) ==
  IF ~expression.ok THEN expression
  ELSE IF ~peek(expression.rest, "ParenR") THEN unexpected_token(expression.rest)
  ELSE Result(TRUE, Group(expression.value), Tail(expression.rest))

\* Parser::value: a call or a variable, a backtick, a string, a group.  The
\* token of a backtick stands for its place in the text; a text of the model
\* has one backtick at most, the token 1
Parser_value(tokens) ==
  CASE Head(tokens).kind = "Name" ->
         IF peek(Tail(tokens), "ParenL")
         THEN value_call(Head(tokens).lexeme, Parser_arguments(Tail(Tail(tokens)), <<>>))
         ELSE Result(TRUE, Variable(Head(tokens).lexeme), Tail(tokens))
    [] Head(tokens).kind = "Backtick" ->
         Result(TRUE, Backtick(Head(tokens).lexeme, 1), Tail(tokens))
    [] Head(tokens).kind = "StringCooked" ->
         Result(TRUE, String(Head(tokens).lexeme), Tail(tokens))
    [] Head(tokens).kind = "ParenL" -> value_group(Parser_expression(Tail(tokens)))
    [] OTHER -> unexpected_token(tokens)

\* Parser::expression, after + : lhs + rhs
expression_rhs(lhs, rhs) ==
  IF ~rhs.ok THEN rhs ELSE Result(TRUE, Concatination(lhs, rhs.value), rhs.rest)

\* Parser::expression, after the value: + and an expression, or the value
expression_lhs(lhs) ==
  IF ~lhs.ok THEN lhs
  ELSE IF peek(lhs.rest, "Plus")
  THEN expression_rhs(lhs.value, Parser_expression(Tail(lhs.rest)))
  ELSE lhs

\* Parser::expression: a value, or a value + an expression
Parser_expression(tokens) == expression_lhs(Parser_value(tokens))

\* Parser::arguments, after an expression: a comma and the next argument, or
\* the closing parenthesis
arguments_next(arguments, expression) ==
  IF ~expression.ok THEN expression
  ELSE IF peek(expression.rest, "Comma")
  THEN Parser_arguments(Tail(expression.rest), Append(arguments, expression.value))
  ELSE IF peek(expression.rest, "ParenR")
  THEN Result(TRUE, Append(arguments, expression.value), expression.rest)
  ELSE unexpected_token(expression.rest)

\* Parser::arguments: expressions with a comma after each but the last, where
\* the comma is optional, up to the closing parenthesis
Parser_arguments(tokens, arguments) ==
  IF \/ peek(tokens, "ParenR") \/ peek(tokens, "Eof") \/ peek(tokens, "Eol")
     \/ peek(tokens, "InterpolationEnd")
  THEN Result(TRUE, arguments, tokens)
  ELSE arguments_next(arguments, Parser_expression(tokens))

RECURSIVE header_parameters(_, _)

\* Parser::recipe, the parameter loop after = : the value is the default
header_default(name, plus, decls, default) ==
  IF ~default.ok THEN default
  ELSE header_parameters(default.rest,
                         Append(decls, [name |-> name, plus |-> plus,
                                        default |-> Some(default.value)]))

\* Parser::recipe, the parameter loop after the optional + : a name, and an
\* optional = and a value; what is no name ends the loop
header_parameter(plus, named, tokens, decls) ==
  IF ~peek(named, "Name")
  THEN IF plus THEN unexpected_token(named) ELSE Result(TRUE, decls, tokens)
  ELSE IF peek(Tail(named), "Equals")
  THEN header_default(Head(named).lexeme, plus, decls, Parser_value(Tail(Tail(named))))
  ELSE header_parameters(
         Tail(named),
         Append(decls, [name |-> Head(named).lexeme, plus |-> plus, default |-> None]))

\* Parser::recipe, the tokens of the parameter loop
header_parameters(tokens, decls) ==
  header_parameter(peek(tokens, "Plus"),
                   IF peek(tokens, "Plus") THEN Tail(tokens) ELSE tokens, tokens, decls)

RECURSIVE header_dependencies(_, _)
\* Parser::recipe, the tokens of the dependency loop: names
header_dependencies(tokens, dependencies) ==
  IF peek(tokens, "Name")
  THEN header_dependencies(Tail(tokens), Append(dependencies, Head(tokens).lexeme))
  ELSE Result(TRUE, dependencies, tokens)

RECURSIVE body_fragments(_, _)

\* Parser::recipe, a body line after {{ and an expression: }}
body_interpolation(fragments, expression) ==
  IF ~expression.ok THEN expression
  ELSE IF ~peek(expression.rest, "InterpolationEnd") THEN unexpected_token(expression.rest)
  ELSE body_fragments(Tail(expression.rest),
                      Append(fragments, Interpolation(expression.value)))

\* Parser::recipe, the tokens of one body line up to its Eol or to the Dedent:
\* texts and interpolations
body_fragments(tokens, fragments) ==
  IF peek(tokens, "Eol") THEN Result(TRUE, fragments, Tail(tokens))
  ELSE IF peek(tokens, "Dedent") THEN Result(TRUE, fragments, tokens)
  ELSE IF peek(tokens, "Text")
  THEN body_fragments(Tail(tokens), Append(fragments, Text(Head(tokens).lexeme)))
  ELSE IF ~peek(tokens, "InterpolationStart") THEN unexpected_token(tokens)
  ELSE body_interpolation(fragments, Parser_expression(Tail(tokens)))

RECURSIVE body_lines(_, _)

\* Parser::recipe, the body after the fragments of a line: lines.push(fragments)
body_line(lines, fragments) ==
  IF ~fragments.ok THEN fragments
  ELSE body_lines(fragments.rest, Append(lines, fragments.value))

\* Parser::recipe, the tokens of the body after Indent up to Dedent: an Eol is
\* an empty line, a Line begins a line of fragments
body_lines(tokens, lines) ==
  IF peek(tokens, "Dedent") THEN Result(TRUE, lines, Tail(tokens))
  ELSE IF peek(tokens, "Eol") THEN body_lines(Tail(tokens), Append(lines, <<>>))
  ELSE IF ~peek(tokens, "Line") THEN unexpected_token(tokens)
  ELSE body_line(lines, body_fragments(Tail(tokens), <<>>))

\* Parser::recipe, the tokens: the recipe as the parser takes it as an item
recipe_of(name, doc, quiet, decls, dependencies, body) ==
  IF ~body.ok THEN body
  ELSE Result(TRUE, Documented(RecipeItem(name, quiet, decls, dependencies, body.value), doc),
              body.rest)

\* Parser::recipe, the tokens after the end of the header line: the body when
\* an Indent follows
recipe_indent(name, doc, quiet, decls, dependencies, eol) ==
  IF ~eol.ok THEN eol
  ELSE recipe_of(name, doc, quiet, decls, dependencies,
                 IF peek(eol.rest, "Indent") THEN body_lines(Tail(eol.rest), <<>>)
                 ELSE Result(TRUE, <<>>, eol.rest))

\* Parser::recipe, the tokens after the dependencies: the end of the line
recipe_eol(name, doc, quiet, decls, dependencies) ==
  recipe_indent(name, doc, quiet, decls, dependencies.value, expect_eol(dependencies.rest))

\* Parser::recipe, the tokens after the parameters: the colon and the
\* dependencies
recipe_colon(name, doc, quiet, parameters) ==
  IF ~parameters.ok THEN parameters
  ELSE IF ~peek(parameters.rest, "Colon") THEN unexpected_token(parameters.rest)
  ELSE recipe_eol(name, doc, quiet, parameters.value,
                  header_dependencies(Tail(parameters.rest), <<>>))

\* Parser::recipe, the tokens of a recipe after its name: the parameters, the
\* colon, the dependencies, the end of the line, and the body
recipe_item(name, doc, quiet, tokens) ==
  recipe_colon(name, doc, quiet, header_parameters(tokens, <<>>))

\* Parser::assignment, the tokens after the expression: the end of the line
assignment_of(name, export, equals, expression, eol) ==
  IF ~eol.ok THEN eol
  ELSE Result(TRUE, AssignmentItem(name, export, expression, equals), eol.rest)

\* Parser::assignment, the tokens after := or = and the expression
assignment_eol(name, export, equals, expression) ==
  IF ~expression.ok THEN expression
  ELSE assignment_of(name, export, equals, expression.value, expect_eol(expression.rest))

\* Parser::assignment, the tokens after := or = : the expression and the end
\* of the line
assignment_item(name, export, equals, tokens) ==
  assignment_eol(name, export, equals, Parser_expression(tokens))

\* Parser::alias, the tokens after the target: the end of the line
alias_of(name, target, equals, eol) ==
  IF ~eol.ok THEN eol ELSE Result(TRUE, AliasItem(name, target, equals), eol.rest)

\* Parser::alias, the tokens after := or = : the target and the end of the line
alias_item(name, equals, tokens) ==
  IF ~peek(tokens, "Name") THEN unexpected_token(tokens)
  ELSE alias_of(name, Head(tokens).lexeme, equals, expect_eol(Tail(tokens)))

\* Parser::justfile, one item that begins with a name: after export or alias
\* a name and := or = make an assignment or an alias, a name and := or = make
\* an assignment, and everything else is a recipe of that name
named_item(token, doc, tokens) ==
  LET keyword == /\ token.lexeme \in {"export", "alias"}
                 /\ peek(tokens, "Name")
                 /\ (peek(Tail(tokens), "Equals") \/ peek(Tail(tokens), "ColonEquals"))
      plain == /\ token.lexeme \notin {"export", "alias"}
               /\ (peek(tokens, "Equals") \/ peek(tokens, "ColonEquals"))
  IN  IF keyword /\ token.lexeme = "alias"
      THEN alias_item(Head(tokens).lexeme, peek(Tail(tokens), "Equals"), Tail(Tail(tokens)))
      ELSE IF keyword \/ plain
      THEN assignment_item(IF keyword THEN Head(tokens).lexeme ELSE token.lexeme,
                           keyword,
                           IF keyword THEN peek(Tail(tokens), "Equals")
                           ELSE peek(tokens, "Equals"),
                           IF keyword THEN Tail(Tail(tokens)) ELSE Tail(tokens))
      ELSE recipe_item(token.lexeme, doc, FALSE, tokens)

\* an item that the parser rejects for its tokens
UnexpectedItem(token) == [kind |-> "unexpected", name |-> token.kind]

RECURSIVE Parser_items(_, _, _)

\* Parser::justfile, after an item: the next one follows, without a doc
items_next(items, item) ==
  IF item.ok THEN Parser_items(item.rest, None, Append(items, item.value))
  ELSE Append(items, UnexpectedItem(item.value))

\* Parser::justfile, after a comment: it is the doc of a recipe on the next line
items_comment(comment, items, eol) ==
  IF eol.ok THEN Parser_items(eol.rest, Some(comment), items)
  ELSE Append(items, UnexpectedItem(eol.value))

\* Parser::justfile, the loop over the tokens: the items of the text in their
\* order, up to Eof or to the first token that is not expected; doc: the
\* comment of the line before, which an Eol and an item forget
Parser_items(tokens, doc, items) ==
  CASE Head(tokens).kind = "Eof" -> items
    [] Head(tokens).kind = "Eol" -> Parser_items(Tail(tokens), None, items)
    [] Head(tokens).kind = "Comment" ->
         items_comment(Head(tokens).lexeme, items, expect_eol(Tail(tokens)))
    [] Head(tokens).kind = "At" ->
         IF peek(Tail(tokens), "Name")
         THEN items_next(items, recipe_item(Head(Tail(tokens)).lexeme, doc, TRUE,
                                            Tail(Tail(tokens))))
         ELSE Append(items, UnexpectedItem(Head(Tail(tokens))))
    [] Head(tokens).kind = "Name" -> items_next(items, named_item(Head(tokens), doc, Tail(tokens)))
    [] OTHER -> Append(items, UnexpectedItem(Head(tokens)))

\* ------------------------------------------------------------- invocations

Seqs(S, n) == UNION {[1..k -> S] : k \in 0..n}

Config(dry_run, verbosity, quiet, overrides, dotenv) ==
  [dry_run |-> dry_run, verbosity |-> verbosity, quiet |-> quiet,
   overrides |-> overrides, dotenv |-> dotenv]

DefaultConfig == Config(FALSE, "Taciturn", FALSE, EmptyMap, EmptyMap)

\* an invocation: the justfile compiled from its source, the configuration and
\* the command line; `source` keeps the dependency names of every recipe as
\* they are written, `tokens` the backtick tokens of the source
Invocation(justfile_, config_, targets_, args, tokens) ==
  [justfile |-> justfile_, config |-> config_, targets |-> targets_, args |-> args,
   tokens |-> tokens, source |-> [n \in DOMAIN justfile_.recipes |-> <<>>], signals |-> {}]

\* Justfiles of three recipes a, b, c, one command each, with every choice of
\* dependency lists the parser and the resolver accept, run for every list of
\* targets
DepNames == {"a", "b", "c"}

DepRecipes(deps) ==
  [n \in DepNames |->
     parse_recipe(n, CASE n = "a" -> 0 [] n = "b" -> 2 [] n = "c" -> 4,
                  FALSE, <<>>, deps[n], <<<<Text(<<n>>)>>>>)]

\* the dependency lists as written that compile
DepSources ==
  {d \in [DepNames -> Seqs(DepNames, MaxDeps)] : Compiles(DepRecipes(d), EmptyMap)}

DepInvocations ==
  {[Invocation(Justfile(DepRecipes(deps), EmptyMap, {}), DefaultConfig, ts, <<>>, {})
      EXCEPT !.source = deps] :
     deps \in DepSources,
     ts \in Seqs(DepNames, MaxTargets) \ {<<>>}}

\* Justfiles of one recipe r with every parameter list the parser accepts, run
\* with every argument list, with and without dry-run
Decls ==
  [name : {"p", "q"}, plus : BOOLEAN,
   default : {None, Some(String(<<"d">>)), Some(Backtick(<<"echo", "D">>, 1))}]

ParamRecipe(decls) ==
  [r \in {"r"} |->
     parse_recipe("r", 0, FALSE, decls, <<>>,
                  IF decls = <<>> THEN <<>>
                  ELSE <<<<Text(<<"echo">>), Interpolation(Variable(decls[1].name))>>>>)]

ParamInvocations ==
  {Invocation(Justfile(ParamRecipe(decls), EmptyMap, {}),
              Config(dry, "Taciturn", FALSE, EmptyMap, EmptyMap), <<"r">>, args, {1}) :
     decls \in {d \in Seqs(Decls, MaxParams) : Compiles(ParamRecipe(d), EmptyMap)},
     args \in Seqs({<<"x">>, <<"y">>}, MaxArgs),
     dry \in BOOLEAN}

\* Justfiles of one recipe r, quiet or not, whose body is any list of these
\* lines, with the exported assignment a := "A", run under every configuration
\* the command line can produce (--dry-run conflicts with --quiet)
BodyLines ==
  {<<Text(<<"x">>)>>,
   <<Text(<<"@", "x">>)>>,
   <<Text(<<"@">>)>>,
   <<>>,
   <<Text(<<"x", "\\">>)>>,
   <<Text(<<"echo">>), Interpolation(Backtick(<<"f">>, 1))>>,
   <<Text(<<"echo", "$", "a">>), Interpolation(Variable("a"))>>,
   <<Text(<<"#!", "sh">>)>>}

LineAssignments == [n \in {"a"} |-> String(<<"A">>)]

LineRecipe(quiet, body) ==
  [r \in {"r"} |-> parse_recipe("r", 2, quiet, <<>>, <<>>, body)]

LineInvocations ==
  {Invocation(Justfile(LineRecipe(quiet, body), LineAssignments, {"a"}),
              Config(cfg[1], cfg[2], cfg[3], EmptyMap, EmptyMap), <<"r">>, <<>>, {1}) :
     quiet \in BOOLEAN,
     body \in {b \in Seqs(BodyLines, MaxLines) : Compiles(LineRecipe(FALSE, b), LineAssignments)},
     cfg \in {c \in BOOLEAN \X {"Taciturn", "Loquacious", "Grandiloquent"} \X BOOLEAN :
                ~(c[1] /\ c[3])}}

\* Justfiles whose assignments a, b, c are each absent, a string, a backtick
\* that reads $a, a reference or a concatenation of references, with a recipe r
\* that interpolates every assignment, run with overrides, exports and a dotenv
AssignNames == {"a", "b", "c"}

TokenOf(n) == CASE n = "a" -> 1 [] n = "b" -> 2 [] n = "c" -> 3

AssignExprs(n) ==
  {String(<<"S">>), Backtick(<<"echo", "B">>, TokenOf(n)),
   Backtick(<<"echo", "$", "a">>, TokenOf(n))}
    \cup {Variable(m) : m \in AssignNames \ {n}}
    \cup {Concatination(Variable(m), Variable(m)) : m \in AssignNames \ {n}}

AssignmentMaps ==
  UNION {{f \in [D -> UNION {AssignExprs(n) : n \in D}] :
            /\ \A n \in D : f[n] \in AssignExprs(n)
            /\ resolve_assignments(f)} : D \in (SUBSET AssignNames) \ {{}}}

AssignRecipe(assignments) ==
  [r \in {"r"} |->
     parse_recipe("r", 4, FALSE, <<>>, <<>>,
                  <<<<Text(<<"echo">>)>> \o
                    [i \in 1..Len(SortedKeys(DOMAIN assignments)) |->
                       Interpolation(Variable(SortedKeys(DOMAIN assignments)[i]))]>>)]

AssignInvocations ==
  {Invocation(Justfile(AssignRecipe(f), f, ex \cap DOMAIN f),
              Config(dry, "Taciturn", FALSE, ov, dotenv), <<"r">>, <<>>,
              {TokenOf(n) : n \in {m \in DOMAIN f : f[m].kind = "Backtick"}}) :
     f \in AssignmentMaps,
     ex \in {{}, {"a"}},
     ov \in {EmptyMap} \cup {[n \in {m} |-> <<"O">>] : m \in {"a", "b", "d"}},
     dotenv \in {EmptyMap, [n \in {"a"} |-> <<"E">>]},
     dry \in BOOLEAN}

\* Justfiles of one shebang recipe r whose header is on line 0, 1 or 3 of the
\* source, with or without an interpolation in the shebang line, whose other
\* lines are text, blank or an interpolation of the assignment a, which is a
\* string of one line or of two
ScriptLines ==
  {<<Text(<<"x">>)>>,
   <<>>,
   <<Text(<<"echo">>), Interpolation(Variable("a"))>>}

ScriptShebangs ==
  {<<Text(<<"#!", "sh">>)>>,
   <<Text(<<"#!", "sh">>), Interpolation(Variable("a"))>>}

ScriptAssignments ==
  {[n \in {"a"} |-> String(<<"A">>)], [n \in {"a"} |-> String(<<"A", "\n", "B">>)]}

ScriptRecipe(line, body) ==
  [r \in {"r"} |-> parse_recipe("r", line, FALSE, <<>>, <<>>, body)]

ScriptInvocations ==
  {Invocation(Justfile(ScriptRecipe(line, <<first>> \o body), f, {}),
              DefaultConfig, <<"r">>, <<>>, {}) :
     line \in {0, 1, 3},
     first \in ScriptShebangs,
     body \in Seqs(ScriptLines, MaxLines),
     f \in ScriptAssignments}

\* Justfiles of one recipe r that waits for a child in each of the three ways
\* (a command of a line, a backtick of a line, a script), with or without an
\* assignment whose value is a backtick, run at a terminal that may send SIGINT
\* or SIGTERM
SignalBodies ==
  {<<<<Text(<<"x">>)>>>>,
   <<<<Text(<<"x">>)>>, <<Text(<<"y">>)>>>>,
   <<<<Text(<<"echo">>), Interpolation(Backtick(<<"f">>, 1))>>>>,
   <<<<Text(<<"#!", "sh">>)>>, <<Text(<<"x">>)>>>>}

SignalAssignments == {EmptyMap, [n \in {"a"} |-> Backtick(<<"g">>, 2)]}

Signals == {2, 15}

SignalInvocations ==
  {[Invocation(Justfile(ScriptRecipe(0, body), f, {}), DefaultConfig, <<"r">>, <<>>,
               {1, 2})
      EXCEPT !.signals = Signals] :
     body \in SignalBodies, f \in SignalAssignments}

Invocations ==
  DepInvocations \cup ParamInvocations \cup LineInvocations \cup AssignInvocations
    \cup ScriptInvocations \cup SignalInvocations

\* ------------------------------------------------------------------ sources

\* sources of recipes a and b without parameters, with a parameter p or with a
\* parameter p that has a default, which depend on nothing, on a or on b, of
\* aliases a and c for a or b, and of assignments a and p, in every order
MixedItems ==
  {RecipeItem(n, FALSE, decls, deps, <<<<Text(<<"x">>)>>>>) :
     n \in {"a", "b"},
     decls \in {<<>>, <<[name |-> "p", plus |-> FALSE, default |-> None]>>,
               <<[name |-> "p", plus |-> FALSE, default |-> Some(String(<<"d">>))]>>},
     deps \in {<<>>, <<"a">>, <<"b">>}}
    \cup {AliasItem(n, t, FALSE) : n \in {"a", "c"}, t \in {"a", "b"}}
    \cup {AssignmentItem(n, FALSE, String(<<"s">>), FALSE) : n \in {"a", "p"}}

MixedSources == Seqs(MixedItems, MaxItems)

\* sources of one recipe a with every list of parameters p and q, variadic or
\* not, with or without a default, and every list of dependencies a and b
SourceDecls ==
  [name : {"p", "q"}, plus : BOOLEAN, default : {None, Some(String(<<"d">>))}]

HeaderSources ==
  {<<RecipeItem("a", FALSE, decls, deps, <<>>)>> :
     decls \in Seqs(SourceDecls, MaxParams), deps \in Seqs({"a", "b"}, MaxDeps)}

\* sources of one recipe a whose body lines are a text, a text that begins
\* with a space or a tab, a shebang, a text that ends in a backslash, a blank
\* line, an interpolation, or an interpolation and a text that begins with a
\* space
SourceLines ==
  {<<Text(<<"x">>)>>,
   <<Text(<<" ", "x">>)>>,
   <<Text(<<"\t", "x">>)>>,
   <<Text(<<"#!", "sh">>)>>,
   <<Text(<<"x", "\\">>)>>,
   <<>>,
   <<Interpolation(String(<<"s">>))>>,
   <<Interpolation(String(<<"s">>)), Text(<<" ", "x">>)>>}

BodySources ==
  {<<RecipeItem("a", FALSE, <<>>, <<>>, body)>> : body \in Seqs(SourceLines, MaxBody)}

\* sources of assignments a, b and c, each a string, a reference to a, b, c or
\* to d, which is not defined, a concatenation, a group or a call with
\* references, in every order
SourceExpressions ==
  {String(<<"s">>), Variable("a"), Variable("b"), Variable("c"), Variable("d"),
   Concatination(Variable("b"), Variable("c")), Group(Variable("a")),
   Call("env_var_or_default", <<String(<<"s">>), Variable("c")>>)}

AssignmentSources ==
  Seqs({AssignmentItem(n, FALSE, e, FALSE) : n \in {"a", "b", "c"}, e \in SourceExpressions},
       MaxItems)

\* sources of a recipe a, quiet or not, with or without parameters, a body
\* and an interpolation, of an alias c for a, written with := or =, and of an
\* assignment b, exported or not, written with := or =, of a string or of a
\* concatenation of a call, a group and a backtick, in every order
PrintItems ==
  {Documented(RecipeItem("a", quiet, decls, <<>>, body), doc) :
     quiet \in BOOLEAN,
     doc \in {None, Some(<<"#", " ", " ", "x", " ", "x", " ">>)},
     decls \in {<<>>, <<[name |-> "p", plus |-> FALSE, default |-> None],
                       [name |-> "q", plus |-> TRUE,
                        default |-> Some(Group(Concatination(String(<<"d">>), Variable("b"))))]>>},
     body \in {<<>>,
               <<<<Text(<<"x", " ", "\\">>)>>, <<Text(<<"\t", "x">>)>>, <<>>,
                 <<Interpolation(Concatination(Variable("b"), String(<<"s">>))),
                   Text(<<" ", "x">>)>>>>}}
    \cup {AliasItem("c", "a", equals) : equals \in BOOLEAN}
    \cup {AssignmentItem("b", export, e, equals) :
            export \in BOOLEAN, equals \in BOOLEAN,
            e \in {String(<<"s", " ", "s">>),
                   Concatination(Call("env_var_or_default",
                                      <<String(<<"s">>), Group(String(<<"d">>))>>),
                                 Concatination(Backtick(<<"c", " ", "c">>, 1),
                                               Call("arch", <<>>)))}}

PrintSources == Seqs(PrintItems, MaxItems)

\* sources of an assignment a, of a string or of d, which is not defined, of a
\* recipe b with or without a parameter a and with or without a dependency z,
\* which is no recipe, and of an alias c for b or for z, in every order
StageItems ==
  {AssignmentItem("a", FALSE, e, FALSE) : e \in {String(<<"s">>), Variable("d")}}
    \cup {RecipeItem("b", FALSE, decls, deps, <<>>) :
            decls \in {<<>>, <<[name |-> "a", plus |-> FALSE, default |-> None]>>},
            deps \in {<<>>, <<"z">>}}
    \cup {AliasItem("c", t, FALSE) : t \in {"b", "z"}}

StageSources == Seqs(StageItems, MaxItems)

Sources ==
  MixedSources \cup HeaderSources \cup BodySources \cup AssignmentSources \cup PrintSources
    \cup StageSources

\* -------------------------------------------------------------------- state

VARIABLES
  justfile,    \* the compiled Justfile: recipes, assignments, exports
  config,      \* the Config of the invocation
  arguments,   \* the invocation: targets, args, and the source's backtick tokens and
               \* dependency names
  pc,          \* where the invocation is
  result,      \* the RuntimeError the invocation ended with, NoError for none
  keys,        \* evaluate_assignments: the assignment names still to iterate
  evaluated,   \* evaluate_assignments: AssignmentEvaluator.evaluated
  scope,       \* Justfile::run: the evaluated assignments, the scope of every recipe
  targets,     \* Justfile::run: the targets still to run
  ran,         \* Justfile::run: the recipes that have run
  stack,       \* run_recipe: the recipes whose dependencies are being run
  rr,          \* Recipe::run: its locals
  handler,     \* the InterruptHandler of the process
  source,      \* the items of the source file that is compiled
  parser,      \* Parser: what is left of the source, its maps, its result
  iterator,    \* Variables: the root, the stack, what next has yielded, its None
  matches,     \* Config::from_matches: the ArgMatches, and what the call has made of them
  stream,      \* Parser::justfile on a token stream: the tokens left, its tables, its result
  log          \* everything the invocation did that the outside can see

vars ==
  <<justfile, config, arguments, pc, result, keys, evaluated, scope, targets, ran,
    stack, rr, handler, source, parser, iterator, matches, stream, log>>

\* what a run does not change: the compiled justfile, the configuration, the
\* command line, and the parser, which has returned when a run begins
inputs == <<justfile, config, arguments, source, parser, iterator, matches, stream>>

\* no Variables is iterated
NoIterator == [root |-> <<>>, stack |-> <<>>, yielded |-> <<>>, ended |-> TRUE]

\* no command line is read
NoMatches ==
  [SET |-> <<>>, ARGUMENTS |-> <<>>, WORKING_DIRECTORY |-> FALSE, pc |-> "returned",
   overrides |-> EmptyMap, arguments |-> <<>>, current_dir |-> None]

\* no token stream is parsed
NoStream ==
  [tokens |-> <<>>, pc |-> "returned", result |-> "none", recipes |-> {}, assignments |-> {},
   aliases |-> {}]

NoRun ==
  [recipe |-> "", arguments |-> <<>>, rest |-> <<>>, bound |-> FALSE, argument_map |-> EmptyMap,
   i |-> 1, line_number |-> 0, command |-> <<>>, evaluated_lines |-> <<>>, tmp |-> FALSE]

Init ==
  \E inv \in Invocations :
    /\ justfile = inv.justfile
    /\ config = inv.config
    /\ arguments = [targets |-> inv.targets, args |-> inv.args, tokens |-> inv.tokens,
                    source |-> inv.source, signals |-> inv.signals]
    /\ pc = "run"
    /\ result = NoError
    /\ keys = <<>>
    /\ evaluated = EmptyMap
    /\ scope = EmptyMap
    /\ targets = inv.targets
    /\ ran = {}
    /\ stack = <<>>
    /\ rr = NoRun
    /\ handler = InterruptHandler
    /\ source = <<>>
    /\ parser = [Parser_new(<<>>) EXCEPT !.pc = "done"]
    /\ iterator = NoIterator
    /\ matches = NoMatches
    /\ stream = NoStream
    /\ log = <<>>

\* what the children of one step do
BacktickFates == [arguments.tokens -> OutputFates]

\* the signal the terminal sends during the wait for each backtick of one step,
\* 0 for none
BacktickSignals == [arguments.tokens -> {0} \cup arguments.signals]

\* the invocation ends with an error
Failed(error, log_) ==
  /\ result' = error
  /\ pc' = "done"
  /\ log' = log_
  /\ UNCHANGED <<inputs, keys, evaluated, scope, targets, ran, stack, rr>>

\* the invocation ends with an error, outside every guard
Fail(error, log_) == Failed(error, log_) /\ UNCHANGED handler

\* the evaluator has returned an error, or the process has exited in it
Stopped(error, st) ==
  IF st.handler.exit # 0
  THEN /\ pc' = "exit"
       /\ handler' = st.handler
       /\ log' = st.log
       /\ UNCHANGED <<inputs, result, keys, evaluated, scope, targets, ran, stack, rr>>
  ELSE Fail(error, st.log)

\* Justfile::run: overrides of unknown assignments are fatal before anything runs
run_begin ==
  /\ pc = "run"
  /\ IF \E n \in DOMAIN config.overrides : n \notin DOMAIN justfile.assignments
     THEN Fail(ErrUnknownOverrides, log)
     ELSE /\ pc' = "evaluate_assignments"
          /\ keys' = SortedKeys(DOMAIN justfile.assignments)
          /\ UNCHANGED <<inputs, handler, result, evaluated, scope, targets, ran, stack, rr, log>>

\* an evaluator of the assignments that exports what it has evaluated
assignments_evaluator_exporting(assignments, dotenv, overrides, dry_run, fate, signal) ==
  [assignments |-> assignments, overrides |-> overrides, scope |-> evaluated,
   exports |-> justfile.exports, dotenv |-> dotenv, dry_run |-> dry_run, fate |-> fate,
   signal |-> signal]

\* AssignmentEvaluator::evaluate_assignments: the evaluator it builds
assignments_evaluator(assignments, dotenv, overrides, dry_run, fate, signal) ==
  [assignments |-> assignments, overrides |-> overrides, scope |-> EmptyMap,
   exports |-> {}, dotenv |-> dotenv, dry_run |-> dry_run, fate |-> fate,
   signal |-> signal]

\* evaluate_assignments: the loop goes on after an assignment is evaluated, and
\* the first error ends the invocation
assignment_evaluated(r) ==
  IF r.ok
  THEN /\ evaluated' = r.st.evaluated
       /\ log' = r.st.log
       /\ keys' = Tail(keys)
       /\ UNCHANGED <<inputs, handler, pc, result, scope, targets, ran, stack, rr>>
  ELSE Stopped(r.error, r.st)

\* AssignmentEvaluator::evaluate_assignments: one iteration of its loop
evaluate_assignments_next ==
  /\ pc = "evaluate_assignments"
  /\ keys # <<>>
  /\ \E fate \in BacktickFates, signal \in BacktickSignals :
       assignment_evaluated(
         evaluate_assignment(
           assignments_evaluator(justfile.assignments, config.dotenv, config.overrides,
                                 config.dry_run, fate, signal),
           [evaluated |-> evaluated, log |-> log, handler |-> handler], Head(keys)))

\* AssignmentEvaluator::evaluate_assignments returns evaluator.evaluated
evaluate_assignments_done ==
  /\ pc = "evaluate_assignments"
  /\ keys = <<>>
  /\ scope' = evaluated
  /\ pc' = "targets"
  /\ UNCHANGED <<inputs, handler, result, keys, evaluated, targets, ran, stack, rr, log>>

\* Justfile::run: the next target, with the arguments when it is the last one;
\* a target that has run already is not run again
next_target ==
  /\ pc = "targets"
  /\ IF targets = <<>>
     THEN /\ pc' = "done"
          /\ UNCHANGED <<inputs, handler, result, keys, evaluated, scope, targets, ran, stack, rr, log>>
     ELSE /\ targets' = Tail(targets)
          /\ IF Head(targets) \in ran
             THEN UNCHANGED <<pc, stack>>
             ELSE /\ pc' = "run_recipe"
                  /\ stack' = <<[recipe |-> Head(targets), i |-> 1,
                                 arguments |-> IF Len(targets) = 1 THEN arguments.args
                                               ELSE <<>>]>>
          /\ UNCHANGED <<inputs, handler, result, keys, evaluated, scope, ran, rr, log>>

\* Justfile::run_recipe: the dependencies of the recipe on top of the stack, in
\* the order of its list, each unless it has run; then the recipe itself
run_recipe ==
  /\ pc = "run_recipe"
  /\ LET top == stack[Len(stack)]
         r == justfile.recipes[top.recipe]
         advanced == [stack EXCEPT ![Len(stack)].i = top.i + 1]
     IN  IF top.i <= Len(r.dependencies)
         THEN /\ stack' = IF r.dependencies[top.i] \in ran
                          THEN advanced
                          ELSE Append(advanced, [recipe |-> r.dependencies[top.i], i |-> 1,
                                                 arguments |-> <<>>])
              /\ UNCHANGED <<pc, rr>>
         ELSE /\ pc' = "recipe_run"
              /\ rr' = [NoRun EXCEPT !.recipe = top.recipe, !.arguments = top.arguments,
                                     !.rest = top.arguments]
              /\ UNCHANGED stack
  /\ UNCHANGED <<inputs, handler, result, keys, evaluated, scope, targets, ran, log>>

\* the recipe Recipe::run is running
self == justfile.recipes[rr.recipe]

\* Recipe::run returns Ok: the recipe has run, run_recipe returns to its caller
Returned(log_) ==
  /\ ran' = ran \cup {rr.recipe}
  /\ stack' = SubSeq(stack, 1, Len(stack) - 1)
  /\ pc' = IF Len(stack) = 1 THEN "targets" ELSE "run_recipe"
  /\ rr' = NoRun
  /\ log' = log_
  /\ UNCHANGED <<inputs, result, keys, evaluated, scope, targets>>

\* Recipe::run returns Ok, outside every guard
Return(log_) == Returned(log_) /\ UNCHANGED handler

\* a recipe is run with a number of arguments in its argument range, or the
\* invocation ends with ArgumentCountMismatch
recipe_run ==
  /\ pc = "recipe_run"
  /\ IF ~argument_range(self, Len(rr.arguments))
     THEN Fail(ErrArgumentCountMismatch(rr.recipe, Len(rr.arguments)), log)
     ELSE /\ pc' = "bind"
          /\ log' = Append(log, Ev("recipe", rr.recipe, <<>>, EmptyMap, 0))
          /\ UNCHANGED <<inputs, handler, result, keys, evaluated, scope, targets, ran, stack, rr>>

\* Recipe::run after the binding loop: the body runs as a script when its
\* first line is a shebang, line by line otherwise
parameters_bound(b) ==
  IF b.ok
  THEN /\ rr' = [rr EXCEPT !.argument_map = b.argument_map, !.rest = b.rest, !.bound = TRUE,
                           !.line_number = self.line_number + 1]
       /\ pc' = IF self.shebang THEN "shebang" ELSE "lines"
       /\ log' = b.st.log
       /\ UNCHANGED <<inputs, handler, result, keys, evaluated, scope, targets, ran, stack>>
  ELSE Stopped(b.error, b.st)

\* the recipe's evaluator has no assignments, so its `evaluated` stays empty
NoEvaluated(log_, handler_) == [evaluated |-> EmptyMap, log |-> log_, handler |-> handler_]

\* Recipe::run: the binding loop
bind ==
  /\ pc = "bind"
  /\ \E fate \in BacktickFates, signal \in BacktickSignals :
       parameters_bound(
         bind_parameters(recipe_evaluator(config, scope, justfile.exports, fate, signal),
                         NoEvaluated(log, handler),
                         self.parameters, rr.arguments, EmptyMap))

\* a loop that counts the commands and not the lines
command_ready_counted(command, quiet_command, line_number, i, log_) ==
  /\ rr' = [rr EXCEPT !.i = i, !.line_number = @ + 1, !.command = command]
  /\ pc' = IF command = <<>> THEN "lines" ELSE IF config.dry_run THEN "lines" ELSE "spawn"
  /\ log' = IF command = <<>> THEN log_
            ELSE IF command_printed(config.dry_run, config.verbosity, quiet_command,
                                    self.quiet, config.quiet)
            THEN Append(log_, Ev("print", rr.recipe, command, EmptyMap, line_number))
            ELSE log_
  /\ UNCHANGED <<inputs, handler, result, keys, evaluated, scope, targets, ran, stack>>

\* Recipe::run, line-by-line mode: an empty command is skipped, a command is
\* echoed when command_printed says so, and dry-run goes on to the next line
command_ready(command, quiet_command, line_number, i, log_) ==
  /\ rr' = [rr EXCEPT !.i = i, !.line_number = line_number,
                      !.command = command]
  /\ pc' = IF command = <<>> THEN "lines" ELSE IF config.dry_run THEN "lines" ELSE "spawn"
  /\ log' = IF command = <<>> THEN log_
            ELSE IF command_printed(config.dry_run, config.verbosity, quiet_command,
                                    self.quiet, config.quiet)
            THEN Append(log_, Ev("print", rr.recipe, command, EmptyMap, line_number))
            ELSE log_
  /\ UNCHANGED <<inputs, handler, result, keys, evaluated, scope, targets, ran, stack>>

\* Recipe::run, line-by-line mode: the joined command, without its leading @
command_joined(j) ==
  IF ~j.ok THEN Stopped(j.error, j.st)
  ELSE command_ready(IF starts_with(j.evaluated, "@") THEN Tail(j.evaluated) ELSE j.evaluated,
                     starts_with(j.evaluated, "@"), j.line_number, j.i, j.st.log)

\* Recipe::run, line-by-line mode: the outer loop up to the spawn of a command
lines ==
  /\ pc = "lines"
  /\ IF rr.i > Len(self.lines)
     THEN Return(log)
     ELSE \E fate \in BacktickFates, signal \in BacktickSignals :
            command_joined(
              join_lines(recipe_evaluator(config, scope, justfile.exports, fate, signal),
                         NoEvaluated(log, handler), self.lines, rr.i, rr.line_number, <<>>,
                         rr.argument_map))

\* a loop that goes on to the next line whatever the status of the child
command_status_unchecked(error, log_) ==
  /\ pc' = "lines"
  /\ rr' = [rr EXCEPT !.command = <<>>]
  /\ log' = log_
  /\ UNCHANGED <<inputs, result, keys, evaluated, scope, targets, ran, stack>>

\* Recipe::run, line-by-line mode: the recipe goes on only when the child
\* exited with 0
command_status(error, log_) ==
  IF error = NoError
  THEN /\ pc' = "lines"
       /\ rr' = [rr EXCEPT !.command = <<>>]
       /\ log' = log_
       /\ UNCHANGED <<inputs, result, keys, evaluated, scope, targets, ran, stack>>
  ELSE Failed(error, log_)

\* InterruptHandler::guard around the wait for a child of a recipe: the guard
\* closes when the child has ended, and a signal recorded meanwhile makes the
\* process exit there
guard_closed(log_, done) ==
  IF InterruptHandler_unblock(handler).exit # 0
  THEN /\ pc' = "exit"
       /\ handler' = InterruptHandler_unblock(handler)
       /\ log' = log_
       /\ UNCHANGED <<inputs, result, keys, evaluated, scope, targets, ran, stack, rr>>
  ELSE /\ handler' = InterruptHandler_unblock(handler)
       /\ done

\* Recipe::run, line-by-line mode: InterruptHandler::guard(|| cmd.status()): the
\* command is started in a shell with the exported environment
spawn ==
  /\ pc = "spawn"
  /\ pc' = "status"
  /\ handler' = InterruptHandler_block(handler)
  /\ log' = Append(log, Ev("spawn", rr.recipe, rr.command,
                           export_environment_variables(scope, config.dotenv, justfile.exports),
                           rr.line_number))
  /\ UNCHANGED <<inputs, result, keys, evaluated, scope, targets, ran, stack, rr>>

\* Recipe::run, line-by-line mode: the child has ended
status ==
  /\ pc = "status"
  /\ \E fate \in StatusFates :
       LET child == Child(rr.command,
                          export_environment_variables(scope, config.dotenv, justfile.exports),
                          fate)
           ended == Append(log, Ev("exit", rr.recipe, <<child.t>>, EmptyMap, child.code))
       IN  guard_closed(ended,
                        command_status(status_error(rr.recipe, Some(rr.line_number), child),
                                       ended))

\* Recipe::run, shebang mode: the evaluated lines are printed when dry-run is
\* set or the recipe is quiet
lines_printed(evaluated_lines, log_) ==
  IF config.dry_run \/ self.quiet
  THEN log_ \o [k \in 1..Len(evaluated_lines) |->
                  Ev("print", rr.recipe, evaluated_lines[k], EmptyMap, 0)]
  ELSE log_

\* Recipe::run, shebang mode, after the lines are evaluated: dry-run returns
lines_evaluated(rs) ==
  IF ~rs.ok THEN Stopped(rs.error, rs.st)
  ELSE IF config.dry_run THEN Return(lines_printed(rs.value, rs.st.log))
  ELSE /\ pc' = "script_write"
       /\ rr' = [rr EXCEPT !.evaluated_lines = rs.value]
       /\ log' = lines_printed(rs.value, rs.st.log)
       /\ UNCHANGED <<inputs, handler, result, keys, evaluated, scope, targets, ran, stack>>

\* Recipe::run, shebang mode: every line is evaluated before anything runs
shebang ==
  /\ pc = "shebang"
  /\ \E fate \in BacktickFates, signal \in BacktickSignals :
       lines_evaluated(
         evaluate_lines(recipe_evaluator(config, scope, justfile.exports, fate, signal),
                        NoEvaluated(log, handler), self.lines, rr.argument_map))

\* Recipe::run, shebang mode: the temporary directory is created and the script
\* is written into it; the directory is removed when a step fails
script_write ==
  /\ pc = "script_write"
  /\ \E io \in {"ok", "tempdir", "create", "write"} :
       LET text == script_text(rr.evaluated_lines, self.line_number)
           made == Append(log, Ev("tmpdir", rr.recipe, <<>>, EmptyMap, 0))
           shown == IF grandiloquent(config.verbosity)
                    THEN Append(made, Ev("print", rr.recipe, text, EmptyMap, 0))
                    ELSE made
       IN  IF io = "tempdir" THEN Fail(ErrTmpdirIoError(rr.recipe), log)
           ELSE IF io = "create"
           THEN Fail(ErrTmpdirIoError(rr.recipe),
                     Append(made, Ev("cleanup", rr.recipe, <<>>, EmptyMap, 0)))
           ELSE IF io = "write"
           THEN Fail(ErrTmpdirIoError(rr.recipe),
                     Append(shown, Ev("cleanup", rr.recipe, <<>>, EmptyMap, 0)))
           ELSE /\ pc' = "script_prepare"
                /\ rr' = [rr EXCEPT !.tmp = TRUE]
                /\ log' = Append(shown, Ev("script", rr.recipe, text, EmptyMap, 0))
                /\ UNCHANGED <<inputs, handler, result, keys, evaluated, scope, targets, ran, stack>>

\* Recipe::run, shebang mode: the script is made executable, the shebang line
\* is parsed and the command is made
script_prepare ==
  /\ pc = "script_prepare"
  /\ \E io \in {"ok", "permission", "cygpath"} :
       LET cleaned == Append(log, Ev("cleanup", rr.recipe, <<>>, EmptyMap, 0))
       IN  IF io = "permission" THEN Fail(ErrTmpdirIoError(rr.recipe), cleaned)
           ELSE IF rr.evaluated_lines = <<>>
           THEN Fail(ErrInternal("evaluated_lines was empty"), cleaned)
           ELSE IF ~Shebang_new(rr.evaluated_lines[1])
           THEN Fail(ErrInternal("bad shebang line"), cleaned)
           ELSE IF io = "cygpath" THEN Fail(ErrCygpath(rr.recipe), cleaned)
           ELSE /\ pc' = "script_run"
                /\ UNCHANGED <<inputs, handler, result, keys, evaluated, scope, targets, ran, stack,
                               rr, log>>

\* Recipe::run, shebang mode: InterruptHandler::guard(|| command.status()): the
\* script is started
script_run ==
  /\ pc = "script_run"
  /\ pc' = "script_status"
  /\ handler' = InterruptHandler_block(handler)
  /\ log' = Append(log, Ev("spawn", rr.recipe, Flatten(rr.evaluated_lines),
                           export_environment_variables(scope, config.dotenv, justfile.exports),
                           0))
  /\ UNCHANGED <<inputs, result, keys, evaluated, scope, targets, ran, stack, rr>>

\* Recipe::run returns and `tmp` goes out of scope: the temporary directory is
\* removed
script_returned(error, log_) ==
  IF error = NoError THEN Returned(log_) ELSE Failed(error, log_)

\* Recipe::run, shebang mode: the script has ended; a process that exits where
\* the guard closes drops nothing
script_status ==
  /\ pc = "script_status"
  /\ \E fate \in StatusFates :
       LET child == Child(<<>>,
                          export_environment_variables(scope, config.dotenv, justfile.exports),
                          fate)
           ended == Append(log, Ev("exit", rr.recipe, <<child.t>>, EmptyMap, child.code))
       IN  guard_closed(ended,
                        script_returned(status_error(rr.recipe, None, child),
                                        Append(ended, Ev("cleanup", rr.recipe, <<>>, EmptyMap, 0))))

\* the terminal sends a signal to the process, once in an invocation: the
\* handler records it inside a guard and ends the process outside
interrupt ==
  /\ pc \notin {"done", "exit"}
  /\ handler.interrupted = 0
  /\ \E signo \in arguments.signals :
       /\ handler' = InterruptHandler_interrupt(handler, signo)
       /\ pc' = IF InterruptHandler_interrupt(handler, signo).exit # 0 THEN "exit" ELSE pc
       /\ log' = Append(log, Ev("signal", "", <<>>, EmptyMap, signo))
  /\ UNCHANGED <<inputs, result, keys, evaluated, scope, targets, ran, stack, rr>>

Next ==
  \/ run_begin
  \/ evaluate_assignments_next
  \/ evaluate_assignments_done
  \/ next_target
  \/ run_recipe
  \/ recipe_run
  \/ bind
  \/ lines
  \/ spawn
  \/ status
  \/ shebang
  \/ script_write
  \/ script_prepare
  \/ script_run
  \/ script_status
  \/ interrupt

Spec == Init /\ [][Next]_vars

\* ------------------------------------------------------------- compilation

\* what a compilation does not change: nothing runs before the parser returns
not_running ==
  <<justfile, config, arguments, source, pc, result, keys, evaluated, scope, targets, ran,
    stack, rr, handler, iterator, matches, stream, log>>

Compile ==
  \E items \in Sources :
    /\ source = items
    /\ parser = Parser_new(items)
    /\ justfile = [recipes |-> EmptyMap, assignments |-> EmptyMap, exports |-> {}]
    /\ config = DefaultConfig
    /\ arguments = [targets |-> <<>>, args |-> <<>>, tokens |-> {}, source |-> EmptyMap,
                    signals |-> {}]
    /\ pc = "compile"
    /\ result = NoError
    /\ keys = <<>>
    /\ evaluated = EmptyMap
    /\ scope = EmptyMap
    /\ targets = <<>>
    /\ ran = {}
    /\ stack = <<>>
    /\ rr = NoRun
    /\ handler = InterruptHandler
    /\ iterator = NoIterator
    /\ matches = NoMatches
    /\ stream = NoStream
    /\ log = <<>>

\* Parser::justfile: the next item is a recipe
compile_recipe ==
  /\ parser.pc = "items"
  /\ parser.items # <<>>
  /\ Head(parser.items).kind = "recipe"
  /\ parser' = Parser_recipe(parser, Head(parser.items))
  /\ UNCHANGED not_running

\* Parser::justfile: the next item is an assignment
compile_assignment ==
  /\ parser.pc = "items"
  /\ parser.items # <<>>
  /\ Head(parser.items).kind = "assignment"
  /\ parser' = Parser_assignment(deprecated_equals(parser, Head(parser.items)),
                                 Head(parser.items))
  /\ UNCHANGED not_running

\* Parser::justfile: the next item is an alias
compile_alias ==
  /\ parser.pc = "items"
  /\ parser.items # <<>>
  /\ Head(parser.items).kind = "alias"
  /\ parser' = Parser_alias(deprecated_equals(parser, Head(parser.items)),
                            Head(parser.items))
  /\ UNCHANGED not_running

\* a step of Parser::justfile after the items: its error ends the compilation
resolved(error, next) ==
  parser' = IF error = NoCompilationError THEN [parser EXCEPT !.pc = next]
            ELSE Parser_err(parser, error)

\* Parser::justfile at Eof: AssignmentResolver::resolve_assignments
compile_resolve_assignments ==
  /\ parser.pc = "items"
  /\ parser.items = <<>>
  /\ resolved(AssignmentResolver_resolve_assignments(parser.assignments,
                                                     parser.assignment_tokens),
              "resolve_recipes")
  /\ UNCHANGED not_running

\* a recipe resolver that does not wait for the assignment resolver
compile_resolve_recipes_first ==
  /\ parser.pc = "items"
  /\ parser.items = <<>>
  /\ resolved(RecipeResolver_resolve_recipes(parser.recipes, parser.assignments), "checks")
  /\ UNCHANGED not_running

\* Parser::justfile: RecipeResolver::resolve_recipes
compile_resolve_recipes ==
  /\ parser.pc = "resolve_recipes"
  /\ resolved(RecipeResolver_resolve_recipes(parser.recipes, parser.assignments), "checks")
  /\ UNCHANGED not_running

\* Parser::justfile: the loop over the recipes
compile_checks ==
  /\ parser.pc = "checks"
  /\ resolved(Parser_checks(parser.recipes, parser.assignments), "resolve_aliases")
  /\ UNCHANGED not_running

\* Parser::justfile: AliasResolver::resolve_aliases, and the Justfile is
\* returned when no alias is rejected
compile_resolve_aliases ==
  /\ parser.pc = "resolve_aliases"
  /\ IF AliasResolver_resolve_aliases(parser.aliases, parser.recipes, parser.alias_tokens) = {}
     THEN parser' = [parser EXCEPT !.pc = "done"]
     ELSE \E error \in AliasResolver_resolve_aliases(parser.aliases, parser.recipes,
                                                    parser.alias_tokens) :
            parser' = Parser_err(parser, error)
  /\ UNCHANGED not_running

\* Parser::justfile has returned a Justfile
Compiled == parser.pc = "done" /\ parser.error = NoCompilationError

\* the Justfile that Parser::justfile returns
Parser_justfile(p) ==
  [recipes |-> p.recipes, assignments |-> p.assignments, exports |-> p.exports,
   aliases |-> p.aliases, warnings |-> p.warnings]

\* the items are those of a text: the lexer takes the whole leading whitespace
\* of the first line of a body for the indentation of the body, so that the
\* line has pieces and does not begin with whitespace
Lexed(items) ==
  \A i \in 1..Len(items) :
    (items[i].kind = "recipe" /\ items[i].body # <<>>) =>
      /\ items[i].body[1] # <<>>
      /\ items[i].body[1][1].kind = "Text" =>
           ~(starts_with(items[i].body[1][1].text, " ")
               \/ starts_with(items[i].body[1][1].text, "\t"))

\* parse_test!: the Justfile of a source is printed, and the text is lexed and
\* parsed in its turn
reparse ==
  /\ pc = "compile"
  /\ Compiled
  /\ Lexed(source)
  /\ justfile' = Parser_justfile(parser)
  /\ source' = Parser_items(Lexer_lex(Justfile_fmt(Parser_justfile(parser))), None, <<>>)
  /\ parser' = Parser_new(source')
  /\ pc' = "reparse"
  /\ UNCHANGED <<config, arguments, result, keys, evaluated, scope, targets, ran, stack, rr,
                 handler, iterator, matches, stream, log>>

CompileNext ==
  \/ compile_recipe
  \/ compile_assignment
  \/ compile_alias
  \/ compile_resolve_assignments
  \/ compile_resolve_recipes
  \/ compile_checks
  \/ compile_resolve_aliases
  \/ reparse

CompileSpec == Compile /\ [][CompileNext]_vars

\* ---------------------------------------------------------------- Variables

\* the depth of the expressions that are iterated
MaxDepth == 2

\* the expressions without an expression of their own to iterate: variables, a
\* string, a backtick, and a call, whose argument no iteration reaches
Leaves ==
  {Variable("a"), Variable("b"), String(<<"s">>), Backtick(<<"c">>, 1),
   Call("f", <<Variable("a")>>)}

RECURSIVE Values(_)
RECURSIVE Expressions(_)
\* Parser::value, the values of a depth: the leaves and the groups
Values(depth) ==
  IF depth = 0 THEN Leaves ELSE Leaves \cup {Group(e) : e \in Expressions(depth - 1)}

\* Parser::expression, the expressions of a depth: a value, or a value + an
\* expression
Expressions(depth) ==
  IF depth = 0 THEN Leaves
  ELSE Values(depth) \cup
       {Concatination(l, r) : l \in Values(depth - 1), r \in Expressions(depth - 1)}

RECURSIVE Iterator_next(_)
\* Variables::next, one call: the top of the stack is popped; a variable is
\* Some(token), a concatenation pushes lhs then rhs and a group its expression
\* before next is called again, and a string, a backtick, a call or an empty
\* stack is None
Iterator_next(stack_) ==
  IF stack_ = <<>> THEN [stack |-> <<>>, item |-> None]
  ELSE CASE stack_[Len(stack_)].kind = "Variable" ->
              [stack |-> SubSeq(stack_, 1, Len(stack_) - 1),
               item |-> Some(stack_[Len(stack_)].name)]
         [] stack_[Len(stack_)].kind = "Concatination" ->
              Iterator_next(SubSeq(stack_, 1, Len(stack_) - 1)
                              \o <<stack_[Len(stack_)].lhs, stack_[Len(stack_)].rhs>>)
         [] stack_[Len(stack_)].kind = "Group" ->
              Iterator_next(SubSeq(stack_, 1, Len(stack_) - 1)
                              \o <<stack_[Len(stack_)].expression>>)
         [] OTHER -> [stack |-> SubSeq(stack_, 1, Len(stack_) - 1), item |-> None]

\* Variables::new(root)
Variables_new(root) == [root |-> root, stack |-> <<root>>, yielded |-> <<>>, ended |-> FALSE]

\* the Variables of an expression, and nothing else in the process
Iterate ==
  \E root \in Expressions(MaxDepth) :
    /\ iterator = Variables_new(root)
    /\ source = <<>>
    /\ parser = [Parser_new(<<>>) EXCEPT !.pc = "done"]
    /\ justfile = [recipes |-> EmptyMap, assignments |-> EmptyMap, exports |-> {}]
    /\ config = DefaultConfig
    /\ arguments = [targets |-> <<>>, args |-> <<>>, tokens |-> {}, source |-> EmptyMap,
                    signals |-> {}]
    /\ pc = "variables"
    /\ result = NoError
    /\ keys = <<>>
    /\ evaluated = EmptyMap
    /\ scope = EmptyMap
    /\ targets = <<>>
    /\ ran = {}
    /\ stack = <<>>
    /\ rr = NoRun
    /\ handler = InterruptHandler
    /\ matches = NoMatches
    /\ stream = NoStream
    /\ log = <<>>

\* what the iteration does with an item: a for loop takes Some(token) and
\* ends at the first None
iterated(n) ==
  [iterator EXCEPT !.stack = n.stack,
                   !.yielded = IF n.item = None THEN @ ELSE Append(@, n.item[1]),
                   !.ended = n.item = None]

\* for variable in Variables::new(root): one call of next
for_variable ==
  /\ pc = "variables"
  /\ ~iterator.ended
  /\ iterator' = iterated(Iterator_next(iterator.stack))
  /\ UNCHANGED <<justfile, config, arguments, pc, result, keys, evaluated, scope, targets, ran,
                 stack, rr, handler, source, parser, matches, stream, log>>

VariablesNext == for_variable

VariablesSpec == Iterate /\ [][VariablesNext]_vars

\* ------------------------------------------------------------------- Config

\* a positional argument has at most MaxChars characters
MaxChars == 3
\* a command line has at most MaxRaw positional arguments
MaxRaw == 3

\* fn is_override: a = after the first character
is_override(arg) == \E i \in 2..Len(arg) : arg[i] = "="

\* the = an override is split at, were it the last of the argument
override_index_last(argument) ==
  CHOOSE i \in 2..Len(argument) :
    argument[i] = "=" /\ \A j \in (i + 1)..Len(argument) : argument[j] # "="

\* argument.char_indices().skip(1).find(|&(_, c)| c == '=').unwrap().0
override_index(argument) ==
  CHOOSE i \in 2..Len(argument) :
    argument[i] = "=" /\ \A j \in 2..(i - 1) : argument[j] # "="

RECURSIVE take_while(_)
\* raw_arguments.iter().cloned().take_while(is_override)
take_while(raw_arguments) ==
  IF raw_arguments = <<>> \/ ~is_override(Head(raw_arguments)) THEN <<>>
  ELSE <<Head(raw_arguments)>> \o take_while(Tail(raw_arguments))

RECURSIVE skip_while(_)
\* raw_arguments.into_iter().skip_while(is_override)
skip_while(raw_arguments) ==
  IF raw_arguments = <<>> \/ ~is_override(Head(raw_arguments)) THEN raw_arguments
  ELSE skip_while(Tail(raw_arguments))

RECURSIVE insert_set(_, _)
\* the loop over the values of --set: overrides.insert(name, value)
insert_set(overrides, values) ==
  IF values = <<>> THEN overrides
  ELSE insert_set(Put(overrides, Head(values)[1], Head(values)[2]), Tail(values))

RECURSIVE insert_overrides(_, _)
\* the loop over the leading overrides: the argument is split at its = , and
\* overrides.insert(name, value)
insert_overrides(overrides, leading) ==
  IF leading = <<>> THEN overrides
  ELSE insert_overrides(
         Put(overrides, SubSeq(Head(leading), 1, override_index(Head(leading)) - 1),
             SubSeq(Head(leading), override_index(Head(leading)) + 1, Len(Head(leading)))),
         Tail(leading))

\* argument.rfind('/'), from 1; 0 for None
rfind(argument, c) ==
  IF \E i \in 1..Len(argument) : argument[i] = c
  THEN CHOOSE i \in 1..Len(argument) :
         argument[i] = c /\ \A j \in (i + 1)..Len(argument) : argument[j] # c
  ELSE 0

\* the path prefix of the first argument that is no override
path_prefixed(rest) == rest # <<>> /\ rfind(Head(rest), "/") # 0

\* argument.split_at(i + 1): the directory
split_dir(argument) == SubSeq(argument, 1, rfind(argument, "/"))

\* argument.split_at(i + 1): the recipe
split_recipe(argument) == SubSeq(argument, rfind(argument, "/") + 1, Len(argument))

\* the flat_map over the arguments that are no overrides: the first gives its
\* recipe, or nothing when the recipe is empty, and the others themselves
flat_map(rest) ==
  IF ~path_prefixed(rest) THEN rest
  ELSE IF split_recipe(Head(rest)) = <<>> THEN Tail(rest)
  ELSE <<split_recipe(Head(rest))>> \o Tail(rest)

\* the positional arguments of the command lines
RawArguments == Seqs({"a", "=", "/"}, MaxChars)

\* the command lines: no --set or --set a =, with or without
\* --working-directory, and up to MaxRaw positional arguments
CommandLines ==
  [SET : {<<>>, <<<<<<"a">>, <<"=">>>>>>}, ARGUMENTS : Seqs(RawArguments, MaxRaw),
   WORKING_DIRECTORY : BOOLEAN, pc : {"call"}, overrides : {EmptyMap}, arguments : {<<>>},
   current_dir : {None}]

\* the ArgMatches of a command line, and nothing else in the process
Matched ==
  \E m \in CommandLines :
    /\ matches = m
    /\ iterator = NoIterator
    /\ stream = NoStream
    /\ source = <<>>
    /\ parser = [Parser_new(<<>>) EXCEPT !.pc = "done"]
    /\ justfile = [recipes |-> EmptyMap, assignments |-> EmptyMap, exports |-> {}]
    /\ config = DefaultConfig
    /\ arguments = [targets |-> <<>>, args |-> <<>>, tokens |-> {}, source |-> EmptyMap,
                    signals |-> {}]
    /\ pc = "config"
    /\ result = NoError
    /\ keys = <<>>
    /\ evaluated = EmptyMap
    /\ scope = EmptyMap
    /\ targets = <<>>
    /\ ran = {}
    /\ stack = <<>>
    /\ rr = NoRun
    /\ handler = InterruptHandler
    /\ log = <<>>

\* what no step of Config::from_matches changes
not_matches ==
  <<justfile, config, arguments, pc, result, keys, evaluated, scope, targets, ran, stack, rr,
    handler, source, parser, iterator, stream, log>>

\* Config::from_matches returns Ok(Config): the overrides of --set and of the
\* leading overrides, the arguments, and the directory of a path prefix, which
\* env::set_current_dir has changed to
from_matches ==
  /\ pc = "config"
  /\ matches.pc = "call"
  /\ ~(path_prefixed(skip_while(matches.ARGUMENTS)) /\ matches.WORKING_DIRECTORY)
  /\ matches' =
       [matches EXCEPT
          !.pc = "returned",
          !.overrides = insert_overrides(insert_set(EmptyMap, matches.SET),
                                         take_while(matches.ARGUMENTS)),
          !.arguments = flat_map(skip_while(matches.ARGUMENTS)),
          !.current_dir = IF path_prefixed(skip_while(matches.ARGUMENTS))
                          THEN Some(split_dir(Head(skip_while(matches.ARGUMENTS))))
                          ELSE None]
  /\ UNCHANGED not_matches

\* Config::from_matches dies: a path prefix with --working-directory, or
\* env::set_current_dir fails
from_matches_die ==
  /\ pc = "config"
  /\ matches.pc = "call"
  /\ path_prefixed(skip_while(matches.ARGUMENTS))
  /\ matches' = [matches EXCEPT !.pc = "died"]
  /\ UNCHANGED not_matches

ConfigNext == from_matches \/ from_matches_die

ConfigSpec == Matched /\ [][ConfigNext]_vars


\* ------------------------------------------------------------ token streams

\* the longest stream of arbitrary tokens before the Eof
MaxTokens == 3

\* what a part of the parser does with the stream: it returns Ok with what it
\* has made, it returns Err, or a next().unwrap() finds the stream exhausted
\* and panics; rest is the stream after it.  A loop that would turn again on
\* the stream it began with does not end
Outcome(st, value, rest) == [st |-> st, value |-> value, rest |-> rest]

Panicked == Outcome("panic", <<>>, <<>>)

Diverged == Outcome("diverges", <<>>, <<>>)

Erred(rest) == Outcome("Err", <<>>, rest)

\* Parser::expect: peek, and the token is taken whatever it is; Some(token)
\* when it is not of the kind
tokens_expect(tokens, kind) ==
  IF tokens = <<>> THEN Panicked
  ELSE IF Head(tokens).kind = kind THEN Outcome("None", <<>>, Tail(tokens))
  ELSE Outcome("Some", Head(tokens), Tail(tokens))

\* an end of the line that takes whatever follows
tokens_eol_taken(tokens) ==
  IF tokens = <<>> THEN Panicked
  ELSE IF Head(tokens).kind \in {"Eol", "Eof"} THEN Outcome("None", <<>>, Tail(tokens))
  ELSE Outcome("Some", Head(tokens), Tail(tokens))

\* Parser::expect_eol after the comment: an Eol is taken, an Eof is left,
\* another token is taken and returned
tokens_eol(tokens) ==
  IF tokens = <<>> THEN Panicked
  ELSE IF Head(tokens).kind = "Eol" THEN Outcome("None", <<>>, Tail(tokens))
  ELSE IF Head(tokens).kind = "Eof" THEN Outcome("None", <<>>, tokens)
  ELSE Outcome("Some", Head(tokens), Tail(tokens))

\* Parser::expect_eol: a comment is accepted first
tokens_expect_eol(tokens) ==
  IF tokens = <<>> THEN Panicked
  ELSE tokens_eol(IF Head(tokens).kind = "Comment" THEN Tail(tokens) ELSE tokens)

\* StringLiteral::new: a raw string is taken as it is, a cooked string with an
\* escape other than n, r, t, " and \ is an error
StringLiteral_new(token) ==
  token.kind = "StringRaw"
    \/ \A i \in 1..(Len(token.lexeme) - 1) :
         token.lexeme[i] = "\\" => token.lexeme[i + 1] \in {"n", "r", "t", "\"", "\\"}

\* what follows a part of the parser, for the outcome of the part: the
\* outcome is computed once
After(step, follows(_)) == CHOOSE made \in {follows(s) : s \in {step}} : TRUE

\* expect(kind) after a part: Err with the token that is not of the kind
expected(step, kind) ==
  After(step, LAMBDA s :
    IF s.st # "Ok" THEN s
    ELSE IF tokens_expect(s.rest, kind).st = "panic" THEN Panicked
    ELSE IF tokens_expect(s.rest, kind).st = "Some"
    THEN Erred(tokens_expect(s.rest, kind).rest)
    ELSE Outcome("Ok", s.value, tokens_expect(s.rest, kind).rest))

\* expect_eol after a part: Err with the token that is no end of a line
expected_eol(step) ==
  After(step, LAMBDA s :
    IF s.st # "Ok" THEN s
    ELSE IF tokens_expect_eol(s.rest).st = "panic" THEN Panicked
    ELSE IF tokens_expect_eol(s.rest).st = "Some"
    THEN Erred(tokens_expect_eol(s.rest).rest)
    ELSE Outcome("Ok", s.value, tokens_expect_eol(s.rest).rest))

RECURSIVE tokens_value(_)
RECURSIVE tokens_expression(_)
RECURSIVE tokens_arguments(_)

\* Parser::value: the first token is taken with next().unwrap(); a name before
\* ( is a call, with its arguments and ), a ( is a group, with its expression
\* and ); the expressions are not kept, no read of the stream depends on them
tokens_value(tokens) ==
  IF tokens = <<>> THEN Panicked
  ELSE CASE Head(tokens).kind = "Name" ->
              IF Tail(tokens) = <<>> THEN Panicked
              ELSE IF Head(Tail(tokens)).kind = "ParenL"
              THEN expected(tokens_arguments(Tail(Tail(tokens))), "ParenR")
              ELSE Outcome("Ok", <<>>, Tail(tokens))
         [] Head(tokens).kind = "Backtick" -> Outcome("Ok", <<>>, Tail(tokens))
         [] Head(tokens).kind \in {"StringRaw", "StringCooked"} ->
              IF StringLiteral_new(Head(tokens)) THEN Outcome("Ok", <<>>, Tail(tokens))
              ELSE Erred(Tail(tokens))
         [] Head(tokens).kind = "ParenL" -> expected(tokens_expression(Tail(tokens)), "ParenR")
         [] OTHER -> Erred(Tail(tokens))

\* Parser::expression after the value: accepted(Plus) and an expression
expression_plus(value) ==
  After(value, LAMBDA lhs :
    IF lhs.st # "Ok" THEN lhs
    ELSE IF lhs.rest = <<>> THEN Panicked
    ELSE IF Head(lhs.rest).kind = "Plus" THEN tokens_expression(Tail(lhs.rest))
    ELSE lhs)

\* Parser::expression
tokens_expression(tokens) == expression_plus(tokens_value(tokens))

\* Parser::arguments after an expression: the loop turns again after a comma,
\* ends before ), and takes another token with next().unwrap() for the error
arguments_comma(tokens, argument) ==
  After(argument, LAMBDA expression :
    IF expression.st # "Ok" THEN expression
    ELSE IF expression.rest = <<>> THEN Panicked
    ELSE IF Head(expression.rest).kind = "Comma"
    THEN IF Len(Tail(expression.rest)) >= Len(tokens) THEN Diverged
         ELSE tokens_arguments(Tail(expression.rest))
    ELSE IF Head(expression.rest).kind = "ParenR" THEN expression
    ELSE Erred(Tail(expression.rest)))

\* Parser::arguments: the loop ends before ), Eof, Eol and }}
tokens_arguments(tokens) ==
  IF tokens = <<>> THEN Panicked
  ELSE IF Head(tokens).kind \in {"ParenR", "Eof", "Eol", "InterpolationEnd"}
  THEN Outcome("Ok", <<>>, tokens)
  ELSE arguments_comma(tokens, tokens_expression(tokens))

RECURSIVE tokens_parameters(_, _, _, _)

\* Parser::recipe, the parameter loop after the default of a parameter
parameter_default(tokens, parameters, name, plus, value) ==
  After(value, LAMBDA default :
    IF default.st # "Ok" THEN default
    ELSE IF Len(default.rest) >= Len(tokens) THEN Diverged
    ELSE tokens_parameters(default.rest, parameters \cup {name}, TRUE, plus))

\* Parser::recipe, the parameter loop after accept(Plus): accept(Name) ends
\* the loop when there is no name, the parameter is checked, accepted(Equals)
\* and a value give its default
parameter_name(tokens, named, plus, parameters, parsed_parameter_with_default, parsed_variadic_parameter) ==
  IF named = <<>> THEN Panicked
  ELSE IF Head(named).kind # "Name"
  THEN IF plus THEN Erred(named) ELSE Outcome("Ok", parameters, named)
  ELSE IF parsed_variadic_parameter THEN Erred(Tail(named))
  ELSE IF Head(named).lexeme \in parameters THEN Erred(Tail(named))
  ELSE IF Tail(named) = <<>> THEN Panicked
  ELSE IF Head(Tail(named)).kind = "Equals"
  THEN parameter_default(tokens, parameters, Head(named).lexeme, plus,
                         tokens_value(Tail(Tail(named))))
  ELSE IF parsed_parameter_with_default THEN Erred(Tail(named))
  ELSE tokens_parameters(Tail(named), parameters \cup {Head(named).lexeme}, FALSE, plus)

\* Parser::recipe, the parameter loop: accept(Plus)
tokens_parameters(tokens, parameters, parsed_parameter_with_default, parsed_variadic_parameter) ==
  IF tokens = <<>> THEN Panicked
  ELSE parameter_name(tokens, IF Head(tokens).kind = "Plus" THEN Tail(tokens) ELSE tokens,
                      Head(tokens).kind = "Plus", parameters, parsed_parameter_with_default,
                      parsed_variadic_parameter)

RECURSIVE tokens_dependencies(_, _)
\* Parser::recipe, the dependency loop: while let Some(dependency) = accept(Name)
tokens_dependencies(tokens, dependencies) ==
  IF tokens = <<>> THEN Panicked
  ELSE IF Head(tokens).kind # "Name" THEN Outcome("Ok", dependencies, tokens)
  ELSE IF Head(tokens).lexeme \in dependencies THEN Erred(Tail(tokens))
  ELSE tokens_dependencies(Tail(tokens), dependencies \cup {Head(tokens).lexeme})

\* Parser::recipe: the text begins an indented line that is neither the first,
\* nor in a shebang recipe, nor after a continuation
extra_leading_whitespace(text, fragments, lines_, shebang_) ==
  /\ fragments = <<>>
  /\ lines_ # <<>>
  /\ ~shebang_
  /\ ~(lines_[Len(lines_)] # <<>> /\ continuation(lines_[Len(lines_)][Len(lines_[Len(lines_)])]))
  /\ (starts_with(text, " ") \/ starts_with(text, "\t"))

RECURSIVE tokens_fragments(_, _, _, _)

\* Parser::recipe, a body line after {{ and the expression: expect(}})
fragment_interpolation(tokens, fragments, lines_, shebang_, interpolation) ==
  After(interpolation, LAMBDA expression :
    IF expression.st # "Ok" THEN expression
    ELSE IF Len(expression.rest) >= Len(tokens) THEN Diverged
    ELSE tokens_fragments(expression.rest, Append(fragments, Interpolation(<<>>)), lines_,
                          shebang_))

\* Parser::recipe, the loop over the fragments of a body line: it ends after
\* Eol and before Dedent, takes a text, and takes any other token with
\* expect(InterpolationStart)
tokens_fragments(tokens, fragments, lines_, shebang_) ==
  IF tokens = <<>> THEN Panicked
  ELSE IF Head(tokens).kind = "Eol"
  THEN Outcome("Ok", [fragments |-> fragments, shebang |-> shebang_], Tail(tokens))
  ELSE IF Head(tokens).kind = "Dedent"
  THEN Outcome("Ok", [fragments |-> fragments, shebang |-> shebang_], tokens)
  ELSE IF Head(tokens).kind = "Text"
  THEN IF extra_leading_whitespace(Head(tokens).lexeme, fragments, lines_, shebang_)
       THEN Erred(Tail(tokens))
       ELSE tokens_fragments(Tail(tokens), Append(fragments, Text(Head(tokens).lexeme)), lines_,
                             shebang_ \/ (/\ fragments = <<>> /\ lines_ = <<>>
                                         /\ starts_with(Head(tokens).lexeme, "#!")))
  ELSE IF Head(tokens).kind # "InterpolationStart" THEN Erred(Tail(tokens))
  ELSE fragment_interpolation(tokens, fragments, lines_, shebang_,
                              expected(tokens_expression(Tail(tokens)), "InterpolationEnd"))

RECURSIVE tokens_lines(_, _, _)

\* Parser::recipe, the body loop after the fragments of a line: lines.push
line_pushed(tokens, lines_, fragments) ==
  After(fragments, LAMBDA line :
    IF line.st # "Ok" THEN line
    ELSE IF Len(line.rest) >= Len(tokens) THEN Diverged
    ELSE tokens_lines(line.rest, Append(lines_, line.value.fragments), line.value.shebang))

\* Parser::recipe, the body loop: while !accepted(Dedent); an Eol is an empty
\* line, and expect(Line) takes the token that begins a line
tokens_lines(tokens, lines_, shebang_) ==
  IF tokens = <<>> THEN Panicked
  ELSE IF Head(tokens).kind = "Dedent" THEN Outcome("Ok", lines_, Tail(tokens))
  ELSE IF Head(tokens).kind = "Eol"
  THEN tokens_lines(Tail(tokens), Append(lines_, <<>>), shebang_)
  ELSE IF Head(tokens).kind # "Line" THEN Erred(Tail(tokens))
  ELSE line_pushed(tokens, lines_, tokens_fragments(Tail(tokens), <<>>, lines_, shebang_))

\* Parser::recipe after the end of the header line: accepted(Indent) and the body
recipe_lines(header) ==
  After(header, LAMBDA eol :
    IF eol.st # "Ok" THEN eol
    ELSE IF eol.rest = <<>> THEN Panicked
    ELSE IF Head(eol.rest).kind = "Indent" THEN tokens_lines(Tail(eol.rest), <<>>, FALSE)
    ELSE eol)

\* Parser::recipe after expect(Colon): the dependencies
recipe_after_colon(parameters) ==
  After(parameters, LAMBDA colon :
    IF colon.st # "Ok" THEN colon ELSE tokens_dependencies(colon.rest, {}))

\* Parser::recipe: DuplicateRecipe, the parameters, expect(Colon), the
\* dependencies, expect_eol and the body
tokens_recipe(name, tokens, recipes) ==
  IF name \in recipes THEN Erred(tokens)
  ELSE recipe_lines(
         expected_eol(recipe_after_colon(expected(tokens_parameters(tokens, {}, FALSE, FALSE),
                                                  "Colon"))))

\* Parser::assignment: DuplicateVariable, the expression and expect_eol
tokens_assignment(name, tokens, assignments) ==
  IF name \in assignments THEN Erred(tokens)
  ELSE expected_eol(tokens_expression(tokens))

\* Parser::alias: DuplicateAlias, accept(Name), or next().unwrap() for the
\* error, and expect_eol
tokens_alias(name, tokens, aliases) ==
  IF name \in aliases THEN Erred(tokens)
  ELSE IF tokens = <<>> THEN Panicked
  ELSE IF Head(tokens).kind # "Name" THEN Erred(Tail(tokens))
  ELSE expected_eol(Outcome("Ok", <<>>, Tail(tokens)))

\* an item of the top level that was parsed: its kind and name for the tables
Item(kind, name, item) ==
  After(item, LAMBDA parsed :
    IF parsed.st # "Ok" THEN parsed
    ELSE Outcome("Ok", [kind |-> kind, name |-> name], parsed.rest))

\* Parser::justfile, a comment: expect_eol
comment_item(tokens) == Item("comment", <<>>, expected_eol(Outcome("Ok", <<>>, tokens)))

\* Parser::justfile, an @: accept(Name) and the recipe, or next().unwrap() for
\* the error
quiet_item(tokens, recipes) ==
  IF tokens = <<>> THEN Panicked
  ELSE IF Head(tokens).kind = "Name"
  THEN Item("recipe", Head(tokens).lexeme,
            tokens_recipe(Head(tokens).lexeme, Tail(tokens), recipes))
  ELSE Erred(Tail(tokens))

\* Parser::justfile, the name export or alias: next().unwrap() takes a token;
\* a name before = or := is assigned or is an alias, and any other token is
\* put back for the recipe export or alias
keyword_item(token, tokens, p) ==
  IF tokens = <<>> THEN Panicked
  ELSE IF Head(tokens).kind = "Name" /\ Tail(tokens) = <<>> THEN Panicked
  ELSE IF Head(tokens).kind = "Name" /\ Head(Tail(tokens)).kind \in {"Equals", "ColonEquals"}
  THEN IF token.lexeme = <<"export">>
       THEN Item("assignment", Head(tokens).lexeme,
                 tokens_assignment(Head(tokens).lexeme, Tail(Tail(tokens)), p.assignments))
       ELSE Item("alias", Head(tokens).lexeme,
                 tokens_alias(Head(tokens).lexeme, Tail(Tail(tokens)), p.aliases))
  ELSE Item("recipe", token.lexeme, tokens_recipe(token.lexeme, tokens, p.recipes))

\* Parser::justfile, another name: an assignment before = or :=, else a recipe
plain_item(token, tokens, p) ==
  IF tokens = <<>> THEN Panicked
  ELSE IF Head(tokens).kind \in {"Equals", "ColonEquals"}
  THEN Item("assignment", token.lexeme,
            tokens_assignment(token.lexeme, Tail(tokens), p.assignments))
  ELSE Item("recipe", token.lexeme, tokens_recipe(token.lexeme, tokens, p.recipes))

\* Parser::justfile, one turn of the loop for a token that is not Eof
tokens_item(token, tokens, p) ==
  CASE token.kind = "Eol" -> Item("eol", <<>>, Outcome("Ok", <<>>, tokens))
    [] token.kind = "Comment" -> comment_item(tokens)
    [] token.kind = "At" -> quiet_item(tokens, p.recipes)
    [] token.kind = "Name" ->
         IF token.lexeme \in {<<"export">>, <<"alias">>} THEN keyword_item(token, tokens, p)
         ELSE plain_item(token, tokens, p)
    [] OTHER -> Erred(tokens)

\* Parser::justfile after a turn of the loop: the item is in its table and the
\* loop turns again, or the parser returns the error, or it has panicked
item_taken(p, parsed) ==
  After(parsed, LAMBDA item :
    IF item.st = "Ok"
    THEN [p EXCEPT !.tokens = item.rest,
                   !.recipes = IF item.value.kind = "recipe"
                               THEN @ \cup {item.value.name} ELSE @,
                   !.assignments = IF item.value.kind = "assignment"
                                   THEN @ \cup {item.value.name} ELSE @,
                   !.aliases = IF item.value.kind = "alias"
                               THEN @ \cup {item.value.name} ELSE @]
    ELSE [p EXCEPT !.tokens = item.rest, !.pc = "returned",
                   !.result = IF item.st = "Err" THEN "CompilationError" ELSE item.st])

\* the tokens of the streams: every kind but Eof and Whitespace, which
\* Parser::parse does not keep, with the names a, b, export and alias, a cooked
\* string with and without a bad escape, and texts that begin with a space,
\* with #!, or end in a backslash
Unlexed ==
  {"Colon", "ColonEquals", "Equals", "Plus", "At", "Comment", "Indent", "Dedent", "Line",
   "InterpolationStart", "InterpolationEnd", "StringRaw", "Backtick", "ParenL", "ParenR",
   "Comma", "Eol"}

Symbols ==
  {Lexeme(kind, <<>>) : kind \in Unlexed}
    \cup {Lexeme("Name", <<n>>) : n \in {"a", "b", "export", "alias"}}
    \cup {Lexeme("StringCooked", s) : s \in {<<"s">>, <<"\\", "q">>}}
    \cup {Lexeme("Text", t) : t \in {<<"x">>, <<" ", "x">>, <<"#!">>, <<"x", "\\">>}}

\* the tokens of a list of kinds, names and texts
Kinds(kinds) ==
  [i \in 1..Len(kinds) |->
     IF kinds[i] \in Unlexed THEN Lexeme(kinds[i], <<>>)
     ELSE IF kinds[i] \in {"a", "b", "export", "alias"} THEN Lexeme("Name", <<kinds[i]>>)
     ELSE IF kinds[i] = "s" THEN Lexeme("StringCooked", <<"s">>)
     ELSE IF kinds[i] = "x\\" THEN Lexeme("Text", <<"x", "\\">>)
     ELSE IF kinds[i] = " x" THEN Lexeme("Text", <<" ", "x">>)
     ELSE Lexeme("Text", <<kinds[i]>>)]

\* the tokens of three texts: a recipe with parameters, a dependency and a
\* body of a shebang, an interpolation of a call and a blank line; an
\* exported assignment, an alias, a quiet recipe with a continuation, and an
\* assignment, with comments; a recipe named export and a recipe named alias
Programs ==
  {Kinds(<<"a", "a", "Equals", "s", "Plus", "b", "Colon", "b", "Eol", "Indent",
           "Line", "#!", "InterpolationStart", "a", "Plus", "b", "ParenL", "a", "Comma",
           "StringRaw", "ParenR", "InterpolationEnd", "Eol", "Eol", "Line", " x", "Eol",
           "Dedent">>),
   Kinds(<<"Comment", "Eol", "export", "a", "ColonEquals", "ParenL", "Backtick", "ParenR",
           "Comment", "Eol", "alias", "b", "Equals", "a", "Eol", "At", "b", "Colon", "Eol",
           "Indent", "Line", "x\\", "Eol", "Line", " x", "Eol", "Dedent", "b", "Equals",
           "s", "Eol">>),
   Kinds(<<"export", "Colon", "alias", "Eol", "alias", "a", "Colon", "Comment">>)}

\* a text of tokens cut off, with a token left out, or with another token in
\* the place of one
Mutations(p) ==
  {SubSeq(p, 1, k) : k \in 0..Len(p)}
    \cup {SubSeq(p, 1, i - 1) \o SubSeq(p, i + 1, Len(p)) : i \in 1..Len(p)}
    \cup {[p EXCEPT ![i] = t] : i \in 1..Len(p), t \in Symbols}

\* the token streams: every list of MaxTokens tokens at most, and the texts
\* with their mutations, each with the Eof of the lexer at its end
TokenStreams ==
  {tokens \o <<Lexeme("Eof", <<>>)>> :
     tokens \in Seqs(Symbols, MaxTokens) \cup UNION {Mutations(p) : p \in Programs}}

\* Parser::new on a token stream, and nothing else in the process
Tokenized ==
  \E tokens \in TokenStreams :
    /\ stream = [tokens |-> tokens, pc |-> "loop", result |-> "none", recipes |-> {},
                 assignments |-> {}, aliases |-> {}]
    /\ matches = NoMatches
    /\ iterator = NoIterator
    /\ source = <<>>
    /\ parser = [Parser_new(<<>>) EXCEPT !.pc = "done"]
    /\ justfile = [recipes |-> EmptyMap, assignments |-> EmptyMap, exports |-> {}]
    /\ config = DefaultConfig
    /\ arguments = [targets |-> <<>>, args |-> <<>>, tokens |-> {}, source |-> EmptyMap,
                    signals |-> {}]
    /\ pc = "tokens"
    /\ result = NoError
    /\ keys = <<>>
    /\ evaluated = EmptyMap
    /\ scope = EmptyMap
    /\ targets = <<>>
    /\ ran = {}
    /\ stack = <<>>
    /\ rr = NoRun
    /\ handler = InterruptHandler
    /\ log = <<>>

\* what no step of the parser on a token stream changes
not_stream ==
  <<justfile, config, arguments, pc, result, keys, evaluated, scope, targets, ran, stack, rr,
    handler, source, parser, iterator, matches, log>>

\* Parser::justfile, one turn of the loop: self.tokens.next() is None, Eof,
\* which ends the loop, or the token an item begins with
justfile_next ==
  /\ pc = "tokens"
  /\ stream.pc = "loop"
  /\ stream' =
       IF stream.tokens = <<>>
       THEN [stream EXCEPT !.pc = "returned", !.result = "CompilationError"]
       ELSE IF Head(stream.tokens).kind = "Eof"
       THEN [stream EXCEPT !.tokens = Tail(@), !.pc = "resolve"]
       ELSE item_taken(stream, tokens_item(Head(stream.tokens), Tail(stream.tokens), stream))
  /\ UNCHANGED not_stream

\* Parser::justfile after the loop: a token that is left is an error; the
\* resolvers return an error or pass, and pass when there is no item to
\* resolve; the Justfile is returned
justfile_resolve ==
  /\ pc = "tokens"
  /\ stream.pc = "resolve"
  /\ \E passed \in {TRUE} \cup {FALSE : n \in stream.recipes \cup stream.assignments \cup stream.aliases} :
       stream' = [stream EXCEPT
                    !.pc = "returned",
                    !.result = IF stream.tokens = <<>> /\ passed THEN "Justfile"
                               ELSE "CompilationError"]
  /\ UNCHANGED not_stream

TokenNext == justfile_next \/ justfile_resolve

TokenSpec == Tokenized /\ [][TokenNext]_vars

\* the parser runs until it returns
TokenFairSpec == TokenSpec /\ WF_vars(TokenNext)


\* --------------------------------------------------------------- properties

Occurs(x, s) == \E i \in 1..Len(s) : s[i] = x

IsPrefix(s, t) == Len(s) <= Len(t) /\ SubSeq(t, 1, Len(s)) = s

\* the positions of the log that hold an event of kind e
At(e) == {k \in 1..Len(log) : log[k].ev = e}

\* the recipes Recipe::run was entered for, in order
Executed ==
  [i \in 1..Len(SelectSeq(log, LAMBDA x : x.ev = "recipe")) |->
     SelectSeq(log, LAMBDA x : x.ev = "recipe")[i].name]

RECURSIVE DepthFirst(_, _, _)
\* the depth-first order: each name of `names` in turn, unless visited, after
\* the names of its own list
DepthFirst(dependencies, names, visited) ==
  IF names = <<>> THEN visited
  ELSE IF Occurs(Head(names), visited)
  THEN DepthFirst(dependencies, Tail(names), visited)
  ELSE DepthFirst(dependencies, Tail(names),
                  Append(DepthFirst(dependencies, dependencies[Head(names)], visited),
                         Head(names)))

\* C1: recipes run in depth-first order over their dependencies, the
\* dependencies of a recipe in the order they are written in its header and
\* before the recipe itself, and every recipe runs at most once in an
\* invocation, where it is first reached: what has run so far is a prefix of
\* that order, and all of it when the invocation ends without an error.
C1_DepthFirstOnce ==
  /\ \A n \in DOMAIN justfile.recipes :
       justfile.recipes[n].dependencies = arguments.source[n]
  /\ \A i, j \in 1..Len(Executed) : i < j => Executed[i] # Executed[j]
  /\ IsPrefix(Executed, DepthFirst(arguments.source, arguments.targets, <<>>))
  /\ (pc = "done" /\ result = NoError) =>
       Executed = DepthFirst(arguments.source, arguments.targets, <<>>)

\* two targets are run to the end, a recipe has two dependencies, and the
\* second of them is reached a second time through the first
C1_Witness ==
  /\ pc = "done"
  /\ result = NoError
  /\ Len(arguments.targets) = 2
  /\ Len(Executed) = 3
  /\ \E n \in DOMAIN justfile.recipes :
       /\ Len(justfile.recipes[n].dependencies) = 2
       /\ Occurs(justfile.recipes[n].dependencies[2],
                 justfile.recipes[justfile.recipes[n].dependencies[1]].dependencies)

\* the event at position k tells how a child of a line-by-line recipe ended
LineExit(k) ==
  /\ log[k].ev = "exit"
  /\ log[k - 1].ev = "spawn"
  /\ ~justfile.recipes[log[k].name].shebang

\* C2: in line-by-line mode the commands of a recipe are spawned in the order
\* of the body, one at a time, and when a child does not exit with 0 (another
\* code, a signal, a failure to launch) Recipe::run returns an error and
\* nothing of the recipe is spawned after it.
C2_LinesInOrderUntilFailure ==
  /\ \A k \in At("spawn") :
       ~justfile.recipes[log[k].name].shebang =>
         /\ log[k].n >= justfile.recipes[log[k].name].line_number + 2
         /\ log[k].n <= justfile.recipes[log[k].name].line_number + 1
                          + Len(justfile.recipes[log[k].name].lines)
         /\ \A j \in At("spawn") :
              (j < k /\ log[j].name = log[k].name) => log[j].n < log[k].n
         /\ IF k = Len(log) THEN pc = "status" ELSE log[k + 1].ev \in {"exit", "signal"}
  /\ \A k \in At("exit") :
       (LineExit(k) /\ ~(log[k].text = <<"exit">> /\ log[k].n = 0)) =>
         /\ k = Len(log)
         /\ pc = "done"
         /\ result.kind \in {"Code", "Signal", "Unknown", "IoError"}
         /\ result.recipe = log[k].name
         /\ result.kind # "IoError" => result.line_number = Some(log[k - 1].n)
         /\ result.kind = "Code" => result.code = log[k].n

\* the first command of a body of two commands exited with a code that is not
\* 0, and the second one was not spawned
C2_Witness ==
  /\ pc = "done"
  /\ result.kind = "Code"
  /\ Len(justfile.recipes[result.recipe].lines) = 2
  /\ ~justfile.recipes[result.recipe].shebang
  /\ justfile.recipes[result.recipe].lines[2] = <<Text(<<"x">>)>>
  /\ result.line_number = Some(justfile.recipes[result.recipe].line_number + 2)
  /\ Cardinality(At("spawn")) = 1

\* the value of the default of a parameter: the text of a string; for a
\* backtick its source between backquotes under dry-run and the output of its
\* child otherwise
DefaultValue(default) ==
  IF default.kind = "String" THEN default.cooked
  ELSE IF config.dry_run THEN <<BQ>> \o default.raw \o <<BQ>>
  ELSE output(Child(default.raw,
                    export_environment_variables(scope, config.dotenv, justfile.exports),
                    Fate("exit", 0))).value

\* the value the binding loop gives parameter i of the recipe that is running
BoundValue(i) ==
  IF i <= Len(rr.arguments)
  THEN IF self.parameters[i].variadic
       THEN Join(SubSeq(rr.arguments, i, Len(rr.arguments)), <<" ">>)
       ELSE rr.arguments[i]
  ELSE DefaultValue(self.parameters[i].default[1])

\* Recipe::run has returned an error from its binding loop
BindingFailed ==
  /\ pc = "done"
  /\ rr.recipe # ""
  /\ ~rr.bound
  /\ result.kind # "ArgumentCountMismatch"

\* C3 (amended): for a recipe the parser accepts, min <= max, and for an
\* argument list with min <= length <= max the binding loop either gives every
\* parameter exactly one value and uses every argument, or returns the error
\* of a default it had to evaluate (a backtick that failed), never the Internal
\* error; the value of a parameter is its argument (a variadic one: the
\* arguments from its place on, joined) or, past the arguments, the value of
\* its default, so only defaults make the map depend on more than the
\* parameters and the arguments.
C3_Binding ==
  rr.recipe # "" =>
    /\ min_arguments(self) <= max_arguments(self)
    /\ rr.bound =>
         /\ DOMAIN rr.argument_map = {self.parameters[i].name : i \in 1..Len(self.parameters)}
         /\ rr.rest = <<>>
         /\ \/ Len(rr.arguments) <= Len(self.parameters)
            \/ self.parameters[Len(self.parameters)].variadic
         /\ \A i \in 1..Len(self.parameters) :
              rr.argument_map[self.parameters[i].name] = BoundValue(i)
    /\ BindingFailed =>
         /\ result.kind = "Backtick"
         /\ ~config.dry_run
         /\ \E i \in 1..Len(self.parameters) :
              /\ i > Len(rr.arguments)
              /\ self.parameters[i].default # None
              /\ self.parameters[i].default[1].kind = "Backtick"
              /\ self.parameters[i].default[1].token = result.token
    /\ (pc = "done" /\ result.kind # "ArgumentCountMismatch"
        /\ \A i \in 1..Len(self.parameters) :
             i > Len(rr.arguments) =>
               (self.parameters[i].default # None
                /\ self.parameters[i].default[1].kind = "String")) => rr.bound

\* one argument is bound to the first of two parameters, and the second gets
\* the output of the backtick that is its default
C3_Witness ==
  /\ rr.bound
  /\ ~config.dry_run
  /\ Len(self.parameters) = 2
  /\ Len(rr.arguments) = 1
  /\ self.parameters[2].default = Some(Backtick(<<"echo", "D">>, 1))
  /\ rr.argument_map[self.parameters[2].name] = <<"D">>

\* C3 as claimed: whatever the children of the defaults do, the binding loop
\* gives every parameter a value, uses every argument, and the map is the same.
C3_Original ==
  (pc = "bind" /\ self.parameters # <<>>) =>
    \A f1, f2 \in BacktickFates :
      LET binding(f) ==
            bind_parameters(recipe_evaluator(config, scope, justfile.exports, f,
                                             [t \in arguments.tokens |-> 0]),
                            NoEvaluated(<<>>, InterruptHandler),
                            self.parameters, rr.arguments, EmptyMap)
      IN  /\ binding(f1).ok
          /\ DOMAIN binding(f1).argument_map =
               {self.parameters[i].name : i \in 1..Len(self.parameters)}
          /\ binding(f1).rest = <<>>
          /\ binding(f1).argument_map = binding(f2).argument_map

\* C4 (amended): the value of a variadic parameter is the arguments that
\* remain, joined by one space each, when at least one remains; when none
\* remains it is the value of the parameter's default, which it then has.
C4_Variadic ==
  rr.bound =>
    \A i \in 1..Len(self.parameters) :
      self.parameters[i].variadic =>
        IF i <= Len(rr.arguments)
        THEN /\ rr.argument_map[self.parameters[i].name]
                  = Join(SubSeq(rr.arguments, i, Len(rr.arguments)), <<" ">>)
             /\ Len(rr.argument_map[self.parameters[i].name])
                  = 2 * (Len(rr.arguments) - i) + 1
        ELSE /\ self.parameters[i].default # None
             /\ rr.argument_map[self.parameters[i].name]
                  = DefaultValue(self.parameters[i].default[1])

\* a variadic parameter after a plain one is bound to two arguments
C4_Witness ==
  /\ rr.bound
  /\ Len(self.parameters) = 2
  /\ self.parameters[2].variadic
  /\ rr.arguments = <<<<"x">>, <<"y">>, <<"x">>>>
  /\ rr.argument_map[self.parameters[2].name] = <<"y", " ", "x">>

\* C4 as claimed: joined by one space, and the empty string when no argument
\* remains.
C4_Original ==
  rr.bound =>
    \A i \in 1..Len(self.parameters) :
      self.parameters[i].variadic =>
        rr.argument_map[self.parameters[i].name]
          = IF i <= Len(rr.arguments)
            THEN Join(SubSeq(rr.arguments, i, Len(rr.arguments)), <<" ">>)
            ELSE <<>>

\* evaluate_assignments has returned its map, and the process runs
AssignmentsEvaluated ==
  /\ pc \notin {"run", "evaluate_assignments", "exit"}
  /\ keys = <<>>
  /\ result.kind # "UnknownOverrides"

RECURSIVE ValueIn(_, _)
\* the value of an expression of strings and references, given the values of
\* the names
ValueIn(values, e) ==
  CASE e.kind = "Variable" -> values[e.name]
    [] e.kind = "String" -> e.cooked
    [] e.kind = "Concatination" -> ValueIn(values, e.lhs) \o ValueIn(values, e.rhs)
    [] e.kind = "Group" -> ValueIn(values, e.expression)

\* C5: when evaluate_assignments succeeds its map has the names of the
\* assignments as keys; an overridden name has the override as its value, its
\* expression is not evaluated and no backtick of it runs; and an assignment
\* that refers to names has the value its expression has over the map, so it
\* sees the override of a name it refers to, evaluated before or after it.
C5_Overrides ==
  AssignmentsEvaluated =>
    /\ DOMAIN scope = DOMAIN justfile.assignments
    /\ \A n \in DOMAIN config.overrides :
         /\ scope[n] = config.overrides[n]
         /\ \A k \in At("expr") : log[k].name # n
         /\ justfile.assignments[n].kind = "Backtick" =>
              \A k \in At("backtick") : log[k].n # justfile.assignments[n].token
    /\ \A m \in (DOMAIN justfile.assignments) \ DOMAIN config.overrides :
         justfile.assignments[m].kind \in {"Variable", "String", "Concatination"} =>
           scope[m] = ValueIn(scope, justfile.assignments[m])

\* a is a backtick and is overridden, and b, which refers to a, has the
\* override as its value
C5_Witness ==
  /\ AssignmentsEvaluated
  /\ ~config.dry_run
  /\ "a" \in DOMAIN config.overrides
  /\ DOMAIN justfile.assignments = {"a", "b", "c"}
  /\ justfile.assignments["a"].kind = "Backtick"
  /\ justfile.assignments["b"] = Variable("a")
  /\ justfile.assignments["c"] = Concatination(Variable("b"), Variable("b"))
  /\ scope["b"] = config.overrides["a"]

\* C6: in one invocation the expression of an assignment is evaluated at most
\* once, however many assignments and recipe lines refer to it, and so a
\* backtick of an assignment runs at most once.
C6_EvaluatedOnce ==
  \A n \in DOMAIN justfile.assignments :
    /\ Cardinality({k \in At("expr") : log[k].name = n}) <= 1
    /\ justfile.assignments[n].kind = "Backtick" =>
         Cardinality({k \in At("backtick") : log[k].n = justfile.assignments[n].token}) <= 1

\* c is a backtick that a and b refer to, a before c is iterated, and the
\* recipe interpolates all three: the backtick has run once
C6_Witness ==
  /\ pc = "done"
  /\ result = NoError
  /\ ~config.dry_run
  /\ config.overrides = EmptyMap
  /\ DOMAIN justfile.assignments = {"a", "b", "c"}
  /\ justfile.assignments["c"].kind = "Backtick"
  /\ justfile.assignments["a"] = Concatination(Variable("c"), Variable("c"))
  /\ justfile.assignments["b"] = Variable("c")
  /\ Cardinality({k \in At("backtick") : log[k].n = justfile.assignments["c"].token}) = 1
  /\ Cardinality(At("spawn")) = 1

\* the backtick at position k of the log ran while the assignments were
\* evaluated, before any recipe
TopLevelBacktick(k) ==
  /\ log[k].ev = "backtick"
  /\ \A j \in At("recipe") : k < j

\* the example: a is exported and a string, b is a backtick that echoes $a,
\* nothing overrides them and the dotenv does not set a
ExportedExample ==
  /\ {"a", "b"} \subseteq DOMAIN justfile.assignments
  /\ "a" \in justfile.exports
  /\ justfile.assignments["a"].kind = "String"
  /\ justfile.assignments["b"].kind = "Backtick"
  /\ justfile.assignments["b"].raw = <<"echo", "$", "a">>
  /\ config.overrides = EmptyMap
  /\ "a" \notin DOMAIN config.dotenv
  /\ ~config.dry_run

\* C7 (amended): a backtick that runs while the assignments are evaluated
\* gets the dotenv entries as its environment and no exported assignment; in
\* the example the child does not see the exported name, b gets no value and
\* the run returns RuntimeError::Backtick for the token of b.
C7_NoExportsForAssignments ==
  /\ \A k \in At("backtick") : TopLevelBacktick(k) => log[k].env = config.dotenv
  /\ ExportedExample =>
       /\ "b" \notin DOMAIN evaluated
       /\ "b" \notin DOMAIN scope
       /\ pc = "done" =>
            /\ result.kind = "Backtick"
            /\ result.token = justfile.assignments["b"].token

\* the example has run: the child of b got an empty environment and exited
\* with 1
C7_Witness ==
  /\ ExportedExample
  /\ pc = "done"
  /\ result = ErrBacktick(justfile.assignments["b"].token, [t |-> "Code", code |-> 1])
  /\ \E k \in At("backtick") :
       log[k].n = justfile.assignments["b"].token /\ log[k].env = EmptyMap

\* C7 as claimed: the child of such a backtick sees every exported assignment
\* with its value, and in the example b evaluates to the value of a.
C7_Original ==
  /\ \A k \in At("backtick") :
       TopLevelBacktick(k) =>
         \A x \in justfile.exports :
           (justfile.assignments[x].kind = "String" /\ x \notin DOMAIN config.overrides) =>
             /\ x \in DOMAIN log[k].env
             /\ log[k].env[x] = justfile.assignments[x].cooked
  /\ (ExportedExample /\ pc = "done") =>
       /\ result.kind # "Backtick" \/ result.output_error.t # "Code"
       /\ "b" \in DOMAIN scope => scope["b"] = justfile.assignments["a"].cooked

\* C8: when the child of a backtick exits with a code c that is not 0, in a
\* recipe line, a default or an assignment, the run ends there with
\* RuntimeError::Backtick of that backtick's token and Code(c), code() of the
\* error is Some(c), and nothing is printed or spawned afterwards.
C8_BacktickCode ==
  \A k \in At("exit") :
    (log[k - 1].ev = "backtick" /\ log[k].text = <<"exit">> /\ log[k].n # 0) =>
      /\ k = Len(log)
      /\ pc = "done"
      /\ result = ErrBacktick(log[k - 1].n, [t |-> "Code", code |-> log[k].n])
      /\ code(result) = Some(log[k].n)

\* the backtick interpolated in a recipe line exited with 2
C8_Witness ==
  /\ pc = "done"
  /\ result.kind = "Backtick"
  /\ code(result) = Some(2)
  /\ rr.bound
  /\ self.lines[rr.i] = <<Text(<<"echo">>), Interpolation(Backtick(<<"f">>, 1))>>
  /\ log[Len(log) - 1].text = <<"f">>

\* the source of a backtick between backquotes
Literal(e) == <<BQ>> \o e.raw \o <<BQ>>

\* C9: with dry-run no child is spawned, for a recipe line, a script or a
\* backtick, no script file is made, and a backtick of an assignment, of a
\* default or of a line has its source between backquotes as its value.
C9_DryRun ==
  config.dry_run =>
    /\ \A k \in 1..Len(log) : log[k].ev \in {"recipe", "expr", "print"}
    /\ \A n \in DOMAIN justfile.assignments :
         (justfile.assignments[n].kind = "Backtick" /\ n \notin DOMAIN config.overrides) =>
           /\ n \in DOMAIN evaluated => evaluated[n] = Literal(justfile.assignments[n])
           /\ n \in DOMAIN scope => scope[n] = Literal(justfile.assignments[n])
    /\ rr.bound =>
         \A i \in 1..Len(self.parameters) :
           (i > Len(rr.arguments) /\ self.parameters[i].default[1].kind = "Backtick") =>
             rr.argument_map[self.parameters[i].name] = Literal(self.parameters[i].default[1])
    /\ (pc = "done" /\ result = NoError) =>
         \A n \in DOMAIN justfile.recipes :
           (/\ Occurs(n, Executed)
            /\ justfile.recipes[n].lines # <<>>
            /\ Len(justfile.recipes[n].lines[1]) = 2
            /\ justfile.recipes[n].lines[1][2].kind = "Expression"
            /\ justfile.recipes[n].lines[1][2].expression.kind = "Backtick") =>
             \E k \in At("print") :
               log[k].text = justfile.recipes[n].lines[1][1].text
                               \o Literal(justfile.recipes[n].lines[1][2].expression)

\* a dry run has ended: a backtick assignment has its source as its value and
\* the line of the recipe was printed
C9_Witness ==
  /\ config.dry_run
  /\ pc = "done"
  /\ result = NoError
  /\ \E n \in DOMAIN scope :
       /\ justfile.assignments[n].kind = "Backtick"
       /\ scope[n] = Literal(justfile.assignments[n])
  /\ At("print") # {}

\* C10: in line-by-line mode a command that is not empty is printed exactly
\* when dry-run, or verbose, or not ((the command began with @) XOR (the recipe
\* is quiet) OR (the configuration is quiet)).
C10_PrintCondition ==
  [][(pc = "lines" /\ rr.i <= Len(self.lines) /\ pc' # "done") =>
       LET line == self.lines[rr.i]
           command_quiet ==
             line # <<>> /\ line[1].kind = "Text" /\ starts_with(line[1].text, "@")
           verbose == config.verbosity \in {"Loquacious", "Grandiloquent"}
           exclusive == (command_quiet /\ ~self.quiet) \/ (~command_quiet /\ self.quiet)
           printed ==
             /\ Cardinality(At("print")') = Cardinality(At("print")) + 1
             /\ log'[Len(log')].ev = "print"
             /\ log'[Len(log')].text = rr'.command
       IN  IF rr'.command # <<>> /\ (config.dry_run \/ verbose \/ ~(exclusive \/ config.quiet))
           THEN printed
           ELSE Cardinality(At("print")') = Cardinality(At("print"))]_vars

\* a line that begins with @ in a quiet recipe has been printed
C10_Witness ==
  /\ pc = "spawn"
  /\ self.quiet
  /\ ~config.quiet
  /\ config.verbosity = "Taciturn"
  /\ self.lines[rr.i - 1] = <<Text(<<"@", "x">>)>>
  /\ log[Len(log)].ev = "print"
  /\ log[Len(log)].text = <<"x">>


\* the number of newlines in a text
Newlines(text) == Cardinality({i \in 1..Len(text) : text[i] = "\n"})

\* the text of the script file that Recipe::run has written
Script == log[CHOOSE k \in At("script") : \A j \in At("script") : j <= k].text

\* the evaluated body lines from line k on, as they stand at the end of the
\* script file
ScriptTail(k) ==
  Flatten([j \in 1..(Len(rr.evaluated_lines) - k + 1) |->
             rr.evaluated_lines[j + k - 1] \o <<"\n">>])

\* the 1-based line of the script file on which body line k begins
ScriptLine(k) == 1 + Newlines(SubSeq(Script, 1, Len(Script) - Len(ScriptTail(k))))

\* the 1-based line of the source on which body line k stands: the header of
\* the recipe is on the 0-based line line_number, the body follows it
SourceLine(k) == self.line_number + 1 + k

Waiting == pc \in {"status", "script_status"}

\* the signal at position k of the log arrived while a child was waited for
DuringWait(k) == k > 1 /\ log[k - 1].ev \in {"spawn", "backtick"}

\* C12: the temporary directory of a shebang recipe is removed on every exit
\* path: once Recipe::run has returned, with or without an error, or the
\* process has exited on a signal that arrived while the script ran, the
\* directory that the recipe made has been removed.
C12_TmpdirRemovedOnEveryPath ==
  \A k \in At("tmpdir") :
    (\/ pc = "done"
     \/ rr.recipe # log[k].name
     \/ pc = "exit" /\ \E j \in At("signal") : j > k /\ DuringWait(j)) =>
      \E j \in At("cleanup") : j > k /\ log[j].name = log[k].name

\* C13: every wait for a child (a backtick, a command of a line, a script) is
\* inside a guard of the interrupt handler; a signal that arrives during the
\* wait is recorded and the process goes on waiting, and when the child has
\* ended and the guard closes the process exits with 128 + signo; a signal
\* outside every wait ends the process at once with 128 + signo. No signal is
\* lost and the process never exits before the child it waits for has ended.
C13_GuardedWaits ==
  /\ handler.blocks = IF Waiting THEN 1 ELSE 0
  /\ (pc = "exit") = (handler.exit # 0)
  /\ \A k \in At("signal") :
       IF DuringWait(k)
       THEN \/ /\ k = Len(log)
               /\ Waiting
               /\ handler.exit = 0
               /\ handler.interrupted = log[k].n
            \/ /\ k + 1 = Len(log)
               /\ log[k + 1].ev = "exit"
               /\ pc = "exit"
               /\ handler.exit = 128 + log[k].n
       ELSE /\ k = Len(log)
            /\ pc = "exit"
            /\ handler.exit = 128 + log[k].n

\* SIGINT arrived while a backtick was waited for, the child has ended and the
\* process has exited with 130
C13_Witness ==
  /\ pc = "exit"
  /\ Len(log) >= 3
  /\ log[Len(log) - 2].ev = "backtick"
  /\ log[Len(log) - 1].ev = "signal"
  /\ log[Len(log)].ev = "exit"
  /\ handler.exit = 130


\* the references between the assignments the parser has collected
AssignmentEdges == [n \in DOMAIN parser.assignments |-> References(parser.assignments[n])]

\* every name an assignment refers to is an assignment
ReferencesDefined ==
  \A n \in DOMAIN AssignmentEdges : AssignmentEdges[n] \subseteq DOMAIN AssignmentEdges

\* the references contain a cycle
ReferencesCyclic ==
  ~Acyclic([n \in DOMAIN AssignmentEdges |-> AssignmentEdges[n] \cap DOMAIN AssignmentEdges])

\* the whole source is parsed and the assignment resolver has returned
AssignmentsResolved == parser.items = <<>> /\ parser.pc # "items"

\* the error the compilation ended with is one of the assignment resolver
AssignmentResolverError ==
  \/ parser.error.kind = "CircularVariableDependency"
  \/ parser.error.kind = "UndefinedVariable" /\ parser.error.token.part = "expression"

\* c is a circle of the assignments: a path along the references that comes
\* back to its first name and has no other name twice
IsCircle(c) ==
  /\ Len(c) >= 2
  /\ c[1] = c[Len(c)]
  /\ \A i, j \in 1..(Len(c) - 1) : i # j => c[i] # c[j]
  /\ \A i \in 1..(Len(c) - 1) :
       c[i] \in DOMAIN AssignmentEdges /\ c[i + 1] \in AssignmentEdges[c[i]]

ChecksPassed ==
  \/ parser.pc = "resolve_aliases"
  \/ /\ parser.pc = "done"
     /\ parser.error.kind \in {"none", "UnknownAliasTarget", "AliasShadowsRecipe"}

\* C16: in a Justfile that Parser::justfile returns every dependency of every
\* recipe is a recipe of the file without parameters, and no parameter has the
\* name of an assignment; DependencyHasParameters is raised at the token of a
\* dependency whose recipe has a parameter, with or without a default, and
\* ParameterShadowsVariable at the token of a parameter.
C16_DependenciesAndParameters ==
  /\ ChecksPassed =>
       \A n \in DOMAIN parser.recipes :
         /\ \A i \in 1..Len(parser.recipes[n].dependencies) :
              /\ parser.recipes[n].dependencies[i] \in DOMAIN parser.recipes
              /\ parser.recipes[parser.recipes[n].dependencies[i]].parameters = <<>>
         /\ \A i \in 1..Len(parser.recipes[n].parameters) :
              parser.recipes[n].parameters[i].name \notin DOMAIN parser.assignments
  /\ parser.error.kind = "DependencyHasParameters" =>
       \E n \in DOMAIN parser.recipes :
         \E i \in 1..Len(parser.recipes[n].dependencies) :
           /\ parser.error.token = Token(parser.recipes[n].dependencies[i],
                                         parser.recipes[n].line_number, "dependency", i)
           /\ parser.recipes[parser.recipes[n].dependencies[i]].parameters # <<>>
  /\ parser.error.kind = "ParameterShadowsVariable" =>
       \E n \in DOMAIN parser.recipes :
         \E i \in 1..Len(parser.recipes[n].parameters) :
           /\ parser.error.token = Token(parser.recipes[n].parameters[i].name,
                                         parser.recipes[n].line_number, "parameter", i)
           /\ parser.recipes[n].parameters[i].name \in DOMAIN parser.assignments

\* b depends on a, whose only parameter has a default, and the source is
\* rejected at the dependency
C16_Witness ==
  /\ parser.pc = "done"
  /\ parser.error.kind = "DependencyHasParameters"
  /\ parser.error.token.lexeme = "a"
  /\ parser.recipes["a"].parameters[1].default # None


\* the k-th parameter of a header follows a variadic parameter
FollowsVariadic(decls, k) == k > 1 /\ decls[k - 1].plus

\* the k-th parameter of a header has no default and follows one that has
RequiredFollowsDefault(decls, k) ==
  decls[k].default = None /\ \E i \in 1..(k - 1) : decls[i].default # None

\* the k-th parameter of a header has the name of an earlier one
RepeatsParameter(decls, k) == \E i \in 1..(k - 1) : decls[i].name = decls[k].name

\* the parser has rejected the header of the recipe at the head of its items
\* at a parameter
ParameterRejected ==
  /\ parser.pc = "done"
  /\ parser.error.kind \in {"ParameterFollowsVariadicParameter", "DuplicateParameter",
                            "RequiredParameterFollowsDefaultParameter"}

\* C17: in every recipe the parser accepts the parameters without a default
\* precede those with one and only the last parameter may be variadic; the
\* header is rejected at its first parameter that follows a variadic one
\* (ParameterFollowsVariadicParameter), repeats a name, or has no default and
\* follows one that has (RequiredParameterFollowsDefaultParameter), and the
\* error is anchored at that parameter.
C17_ParameterOrder ==
  /\ \A n \in DOMAIN parser.recipes :
       LET ps == parser.recipes[n].parameters
       IN  /\ \A i, j \in 1..Len(ps) : (i < j /\ ps[j].default = None) => ps[i].default = None
           /\ \A i \in 1..Len(ps) : ps[i].variadic => i = Len(ps)
  /\ (parser.pc \in {"items", "done"} /\ source # <<>>) =>
       \A m \in 1..(Len(source) - Len(parser.items)) :
         source[m].kind = "recipe" =>
           \A k \in 1..Len(source[m].decls) :
             /\ ~FollowsVariadic(source[m].decls, k)
             /\ ~RequiredFollowsDefault(source[m].decls, k)
  /\ ParameterRejected =>
       LET decls == Head(parser.items).decls
           k == parser.error.token.index
       IN  /\ k \in 1..Len(decls)
           /\ parser.error.token = Token(decls[k].name, parser.line, "parameter", k)
           /\ \A j \in 1..(k - 1) :
                /\ ~FollowsVariadic(decls, j)
                /\ ~RequiredFollowsDefault(decls, j)
                /\ ~RepeatsParameter(decls, j)
           /\ parser.error.kind = "ParameterFollowsVariadicParameter" <=>
                FollowsVariadic(decls, k)
           /\ parser.error.kind = "RequiredParameterFollowsDefaultParameter" <=>
                /\ RequiredFollowsDefault(decls, k)
                /\ ~FollowsVariadic(decls, k)
                /\ ~RepeatsParameter(decls, k)

\* a: `+p q='d'` is rejected at q, which follows the variadic p
C17_Witness ==
  /\ parser.pc = "done"
  /\ parser.error.kind = "ParameterFollowsVariadicParameter"
  /\ parser.error.token.lexeme = "q"
  /\ parser.error.token.index = 2
  /\ Head(parser.items).decls[2].default # None


RECURSIVE Heights(_)
\* the lines that a sequence of items takes
Heights(items) == IF items = <<>> THEN 0 ELSE Height(Head(items)) + Heights(Tail(items))

\* the line of the m-th item of the source
LineOf(m) == Heights(SubSeq(source, 1, m - 1))

\* the items of the source that the parser has gone past
Parsed_items == 1..(Len(source) - Len(parser.items))

\* the first item of the source of a kind and a name
FirstItem(kind, name) ==
  CHOOSE m \in 1..Len(source) :
    /\ source[m].kind = kind /\ source[m].name = name
    /\ \A j \in 1..(m - 1) : ~(source[j].kind = kind /\ source[j].name = name)

\* the item at the head of the parser's items has the kind and the name of an
\* item the parser has gone past, and the error is at its name
SecondOccurrence(kind) ==
  /\ parser.items # <<>>
  /\ Head(parser.items).kind = kind
  /\ \E m \in Parsed_items :
       source[m].kind = kind /\ source[m].name = Head(parser.items).name
  /\ parser.error.token = Token(Head(parser.items).name, parser.line, "name", 0)

\* C18: the items the parser has gone past have different names within their
\* kind, and their recipes no repeated parameter or dependency; what the maps
\* hold under a name is the first recipe, alias or assignment of that name;
\* each Duplicate error is raised at the second occurrence of the name, and
\* DuplicateRecipe and DuplicateAlias carry the line of the first.
C18_UniqueNames ==
  /\ \A m, j \in Parsed_items :
       (j < m /\ source[j].kind = source[m].kind) => source[j].name # source[m].name
  /\ \A m \in Parsed_items :
       source[m].kind = "recipe" =>
         /\ \A k \in 1..Len(source[m].decls) : ~RepeatsParameter(source[m].decls, k)
         /\ \A k, l \in 1..Len(source[m].dependencies) :
              k # l => source[m].dependencies[k] # source[m].dependencies[l]
  /\ \A n \in DOMAIN parser.recipes :
       /\ parser.recipes[n].line_number = LineOf(FirstItem("recipe", n))
       /\ Len(parser.recipes[n].parameters) = Len(source[FirstItem("recipe", n)].decls)
       /\ parser.recipes[n].dependencies = source[FirstItem("recipe", n)].dependencies
  /\ \A n \in DOMAIN parser.aliases :
       parser.aliases[n] =
         Alias(n, LineOf(FirstItem("alias", n)), source[FirstItem("alias", n)].target)
  /\ \A n \in DOMAIN parser.assignments :
       /\ parser.assignments[n] = source[FirstItem("assignment", n)].expression
       /\ parser.assignment_tokens[n].line = LineOf(FirstItem("assignment", n))
  /\ parser.error.kind = "DuplicateRecipe" =>
       /\ SecondOccurrence("recipe")
       /\ parser.error.data = <<LineOf(FirstItem("recipe", Head(parser.items).name))>>
       /\ parser.error.token.line > parser.error.data[1]
  /\ parser.error.kind = "DuplicateAlias" =>
       /\ SecondOccurrence("alias")
       /\ parser.error.data = <<LineOf(FirstItem("alias", Head(parser.items).name))>>
       /\ parser.error.token.line > parser.error.data[1]
  /\ parser.error.kind = "DuplicateVariable" => SecondOccurrence("assignment")
  /\ parser.error.kind = "DuplicateParameter" =>
       LET decls == Head(parser.items).decls
           k == parser.error.token.index
       IN  /\ k \in 1..Len(decls)
           /\ RepeatsParameter(decls, k)
           /\ parser.error.token = Token(decls[k].name, parser.line, "parameter", k)
  /\ parser.error.kind = "DuplicateDependency" =>
       LET deps == Head(parser.items).dependencies
           k == parser.error.token.index
       IN  /\ k \in 1..Len(deps)
           /\ \E i \in 1..(k - 1) : deps[i] = deps[k]
           /\ parser.error.token = Token(deps[k], parser.line, "dependency", k)

\* a second recipe b, two lines below the first, is rejected with the line of
\* the first, which is still in the map
C18_Witness ==
  /\ parser.pc = "done"
  /\ parser.error.kind = "DuplicateRecipe"
  /\ parser.error.token.lexeme = "b"
  /\ parser.error.data = <<0>>
  /\ parser.error.token.line = 2
  /\ "b" \in DOMAIN parser.recipes
  /\ Head(parser.items).decls # source[1].decls


\* the alias resolver has run: the compilation is over, and neither the parser
\* nor an earlier resolver or check has rejected the source
AliasesResolved ==
  /\ parser.pc = "done"
  /\ parser.error.kind \in {"none", "UnknownAliasTarget", "AliasShadowsRecipe"}

\* the aliases of the file whose target is no recipe of the file
UnknownTargets ==
  {n \in DOMAIN parser.aliases : parser.aliases[n].target \notin DOMAIN parser.recipes}

\* the aliases of the file that have the name of a recipe of the file
Shadowing == DOMAIN parser.aliases \cap DOMAIN parser.recipes

\* C19: the alias resolver accepts a file exactly when every alias has a
\* recipe of the file for target and no alias has the name of a recipe of the
\* file, wherever in the file the alias and the recipe are; the two errors are
\* raised only when the whole file is parsed, at the name of an alias that
\* offends, AliasShadowsRecipe with the line of the recipe.
C19_AliasChecks ==
  /\ AliasesResolved =>
       /\ parser.items = <<>>
       /\ parser.error.kind = "none" <=> (UnknownTargets = {} /\ Shadowing = {})
  /\ parser.error.kind \in {"UnknownAliasTarget", "AliasShadowsRecipe"} => AliasesResolved
  /\ parser.error.kind = "UnknownAliasTarget" =>
       \E n \in UnknownTargets :
         parser.error.token = Token(n, parser.aliases[n].line_number, "name", 0)
  /\ parser.error.kind = "AliasShadowsRecipe" =>
       \E n \in Shadowing :
         /\ parser.error.token = Token(n, parser.aliases[n].line_number, "name", 0)
         /\ parser.error.data = <<parser.recipes[n].line_number>>
  /\ parser.pc = "resolve_aliases" => parser.items = <<>>

\* alias a is declared on the first line, for recipe b that comes last, and
\* is rejected for recipe a on the second line
C19_Witness ==
  /\ parser.pc = "done"
  /\ parser.error.kind = "AliasShadowsRecipe"
  /\ parser.error.token = Token("a", 0, "name", 0)
  /\ parser.error.data = <<1>>
  /\ parser.aliases["a"].target = "b"
  /\ "b" \in DOMAIN parser.recipes
  /\ parser.recipes["b"].line_number = 3


\* the first line of a body begins with the text #!
ShebangBody(body) ==
  /\ body # <<>> /\ body[1] # <<>>
  /\ body[1][1].kind = "Text" /\ starts_with(body[1][1].text, "#!")

\* the k-th line of a body ends in a text that ends in a backslash
EndsInContinuation(body, k) ==
  /\ body[k] # <<>>
  /\ body[k][Len(body[k])].kind = "Text"
  /\ body[k][Len(body[k])].text # <<>>
  /\ body[k][Len(body[k])].text[Len(body[k][Len(body[k])].text)] = "\\"

\* the k-th line of a body is not the first, begins with a text that begins
\* with a space or a tab, in a recipe that is no shebang recipe, after a line
\* that does not end in a continuation
ExtraLeading(body, k) ==
  /\ k > 1
  /\ body[k] # <<>> /\ body[k][1].kind = "Text"
  /\ body[k][1].text # <<>> /\ body[k][1].text[1] \in {" ", "\t"}
  /\ ~ShebangBody(body)
  /\ ~EndsInContinuation(body, k - 1)

\* C20: the recipes the parser has gone past have no body line with extra
\* leading whitespace, and ExtraLeadingWhitespace is raised at the text token
\* of the first such line of the recipe; indented lines of a shebang recipe and
\* after a continuation are no such lines.
C20_ExtraLeadingWhitespace ==
  /\ \A m \in Parsed_items :
       source[m].kind = "recipe" =>
         \A k \in 1..Len(source[m].body) : ~ExtraLeading(source[m].body, k)
  /\ parser.error.kind = "ExtraLeadingWhitespace" =>
       LET body == Head(parser.items).body
           k == parser.error.token.index
       IN  /\ parser.pc = "done"
           /\ k \in 1..Len(body)
           /\ ExtraLeading(body, k)
           /\ \A j \in 1..(k - 1) : ~ExtraLeading(body, j)
           /\ parser.error.token = Token(body[k][1].text, parser.line + k, "text", k)
  /\ (parser.pc = "done" /\ parser.items # <<>> /\ Head(parser.items).kind = "recipe"
        /\ \E k \in 1..Len(Head(parser.items).body) :
             ExtraLeading(Head(parser.items).body, k)) =>
       parser.error.kind \in
         {"ExtraLeadingWhitespace", "DuplicateRecipe", "DuplicateParameter",
          "DuplicateDependency", "ParameterFollowsVariadicParameter",
          "RequiredParameterFollowsDefaultParameter"}

\* the second line is indented after a continuation and passes, the third is
\* indented after it and is rejected
C20_Witness ==
  /\ parser.pc = "done"
  /\ parser.error.kind = "ExtraLeadingWhitespace"
  /\ parser.error.token.index = 3
  /\ EndsInContinuation(Head(parser.items).body, 1)
  /\ Head(parser.items).body[2] = <<Text(<<" ", "x">>)>>

\* every line of a shebang recipe is indented, and the recipe is accepted
C20_ShebangAccepted ==
  /\ parser.pc = "done"
  /\ parser.error.kind = "none"
  /\ "a" \in DOMAIN parser.recipes
  /\ parser.recipes["a"].shebang
  /\ Len(parser.recipes["a"].lines) = 3
  /\ parser.recipes["a"].lines[3] = <<Text(<<"\t", "x">>)>>


\* a Justfile without the places of its items in the text and without the
\* warnings of its compilation
Structure(j) ==
  [recipes |-> [n \in DOMAIN j.recipes |-> [j.recipes[n] EXCEPT !.line_number = 0]],
   assignments |-> j.assignments,
   exports |-> j.exports,
   aliases |-> [n \in DOMAIN j.aliases |-> [j.aliases[n] EXCEPT !.line_number = 0]]]

\* C14: the printed form of the Justfile of an accepted source lexes and parses
\* to items, the parser accepts them, the Justfile it returns is the first one
\* but for the places of the items and the warnings, and its printed form is
\* the same text.
C14_RoundTrip ==
  pc = "reparse" =>
    /\ \A i \in 1..Len(source) : source[i].kind \in {"recipe", "alias", "assignment"}
    /\ parser.pc = "done" =>
         /\ parser.error = NoCompilationError
         /\ Structure(Parser_justfile(parser)) = Structure(justfile)
         /\ Justfile_fmt(Parser_justfile(parser)) = Justfile_fmt(justfile)

\* the source has the recipe a after the assignment b written with =, and a
\* body that is indented by more than the indentation after a continuation;
\* its printed form is parsed again
C14_Witness ==
  /\ pc = "reparse"
  /\ Compiled
  /\ justfile.warnings # <<>>
  /\ DOMAIN justfile.recipes = {"a"}
  /\ DOMAIN justfile.aliases = {"c"}
  /\ DOMAIN justfile.assignments = {"b"}
  /\ justfile.recipes["a"].line_number # parser.recipes["a"].line_number
  /\ Len(justfile.recipes["a"].lines) = 4
  /\ justfile.recipes["a"].quiet
  /\ justfile.recipes["a"].doc = Some(<<"x", " ", "x">>)
  /\ justfile.recipes["a"].parameters # <<>>

RECURSIVE VariableNodes(_)
\* the names of the Variable nodes that the root reaches through
\* concatenations and groups only, from left to right
VariableNodes(e) ==
  CASE e.kind = "Variable" -> <<e.name>>
    [] e.kind = "Concatination" -> VariableNodes(e.lhs) \o VariableNodes(e.rhs)
    [] e.kind = "Group" -> VariableNodes(e.expression)
    [] OTHER -> <<>>

\* the number of times x is in the sequence s
Times(x, s) == Cardinality({i \in 1..Len(s) : s[i] = x})

\* C21: when next has returned None, the iteration of Variables::new(root) has
\* yielded every Variable node that the root reaches through concatenations
\* and groups, once each: a string, a backtick or a call is skipped and does
\* not end the iteration of the nodes beside it
C21_EveryVariableOnce ==
  (pc = "variables" /\ iterator.ended) =>
    \A n \in {"a", "b"} : Times(n, iterator.yielded) = Times(n, VariableNodes(iterator.root))

\* what the iteration does yield: some of the reachable Variable nodes, none
\* twice, and all of them when no string, backtick or call is reached
C21_YieldedReachable ==
  pc = "variables" =>
    /\ \A n \in {"a", "b"} : Times(n, iterator.yielded) <= Times(n, VariableNodes(iterator.root))
    /\ iterator.ended => iterator.yielded = Variables(iterator.root)

\* the aliases and assignments of the source that are written with =
EqualsItems ==
  {m \in 1..Len(source) : source[m].kind \in {"alias", "assignment"} /\ source[m].equals}

\* the parser without its warnings
Unwarned(p) == [p EXCEPT !.warnings = <<>>]

\* what the parser makes of an alias or an assignment written with :=
Modern(p, item) ==
  IF item.kind = "alias" THEN Parser_alias(p, [item EXCEPT !.equals = FALSE])
  ELSE Parser_assignment(p, [item EXCEPT !.equals = FALSE])

\* one item: an alias or an assignment is parsed as the one written with :=
\* is, with one warning more at its line when it is written with = ; a recipe,
\* whatever the defaults of its parameters, leaves the warnings alone
EqualsStep ==
  (parser.pc = "items" /\ parser.items # <<>> /\ parser' # parser) =>
    IF Head(parser.items).kind = "recipe"
    THEN parser'.warnings = parser.warnings
    ELSE /\ Unwarned(parser') = Unwarned(Modern(parser, Head(parser.items)))
         /\ parser'.warnings = IF Head(parser.items).equals
                               THEN Append(parser.warnings, parser.line)
                               ELSE parser.warnings

\* the warnings of a compiled justfile are those of the aliases and the
\* assignments written with = , one for each, at its line
EqualsWarnings ==
  Compiled =>
    /\ Len(parser.warnings) = Cardinality(EqualsItems)
    /\ {parser.warnings[k] : k \in 1..Len(parser.warnings)} = {LineOf(m) : m \in EqualsItems}

\* C22: an alias or an assignment, exported or not, written with = is parsed
\* as the one written with := is, and appends one DeprecatedEquals warning
\* with its = token; := and the = of a parameter's default append none, so a
\* compiled justfile has as many warnings as aliases and assignments written
\* with =
C22_DeprecatedEquals == []EqualsWarnings /\ [][EqualsStep]_vars

\* a justfile is compiled with the warning of an alias and the warning of an
\* exported assignment, and with a recipe whose parameter has a default
C22_Witness ==
  /\ pc = "compile"
  /\ Compiled
  /\ Len(parser.warnings) = 2
  /\ \E m \in EqualsItems : source[m].kind = "alias"
  /\ \E m \in EqualsItems : source[m].kind = "assignment" /\ source[m].export
  /\ \E n \in DOMAIN parser.recipes :
       \E k \in 1..Len(parser.recipes[n].parameters) :
         parser.recipes[n].parameters[k].default # None

\* the argument has the form NAME=VALUE, with a name of one character at least
NameValue(arg) == \E i \in 2..Len(arg) : arg[i] = "="

\* the number of the leading positional arguments of the form NAME=VALUE
LeadingRun ==
  CHOOSE k \in 0..Len(matches.ARGUMENTS) :
    /\ \A i \in 1..k : NameValue(matches.ARGUMENTS[i])
    /\ k < Len(matches.ARGUMENTS) => ~NameValue(matches.ARGUMENTS[k + 1])

\* the positional arguments after the leading run
AfterRun == SubSeq(matches.ARGUMENTS, LeadingRun + 1, Len(matches.ARGUMENTS))

\* the name of NAME=VALUE: what is before the first = that follows the first
\* character
NameOf(arg) ==
  CHOOSE n \in {SubSeq(arg, 1, i - 1) : i \in 2..Len(arg)} :
    /\ arg[Len(n) + 1] = "="
    /\ \A j \in 2..Len(n) : n[j] # "="

\* the value of NAME=VALUE: what is after that =
ValueOf(arg) == SubSeq(arg, Len(NameOf(arg)) + 2, Len(arg))

\* the overrides are those of --set and those of the leading run, each split
\* at its first = after the first character; the last of a name wins
OverridesOfRun ==
  /\ \A n \in DOMAIN matches.overrides :
       \/ \E i \in 1..LeadingRun : NameOf(matches.ARGUMENTS[i]) = n
       \/ \E i \in 1..Len(matches.SET) : matches.SET[i][1] = n
  /\ \A i \in 1..LeadingRun :
       /\ NameOf(matches.ARGUMENTS[i]) \in DOMAIN matches.overrides
       /\ (\A j \in (i + 1)..LeadingRun :
             NameOf(matches.ARGUMENTS[j]) # NameOf(matches.ARGUMENTS[i]))
            => matches.overrides[NameOf(matches.ARGUMENTS[i])] = ValueOf(matches.ARGUMENTS[i])
  /\ \A i \in 1..Len(matches.SET) :
       /\ matches.SET[i][1] \in DOMAIN matches.overrides
       /\ (\A j \in 1..LeadingRun : NameOf(matches.ARGUMENTS[j]) # matches.SET[i][1])
            => matches.overrides[matches.SET[i][1]] = matches.SET[i][2]

\* the argument has a / in it
Slashed(arg) == \E i \in 1..Len(arg) : arg[i] = "/"

\* what follows the last / of the argument
AfterSlash(arg) ==
  CHOOSE r \in {SubSeq(arg, i + 1, Len(arg)) : i \in 1..Len(arg)} :
    /\ arg[Len(arg) - Len(r)] = "/"
    /\ \A j \in 1..Len(r) : r[j] # "/"

\* C23: the overrides are those of the maximal leading run of arguments
\* NAME=VALUE, split at the first = after the first character; the arguments
\* from the first that is no override on are the recipe names and arguments,
\* in their order, also with a = in them; the first of them is a recipe name
\* that may have a path prefix: what follows its last / is the recipe, and no
\* recipe is named when nothing follows
C23_LeadingOverrides ==
  (pc = "config" /\ matches.pc = "returned") =>
    /\ OverridesOfRun
    /\ matches.arguments =
         IF AfterRun # <<>> /\ Slashed(Head(AfterRun))
         THEN (IF AfterSlash(Head(AfterRun)) = <<>> THEN <<>>
               ELSE <<AfterSlash(Head(AfterRun))>>) \o Tail(AfterRun)
         ELSE AfterRun

\* a command line whose first argument is an override with two = , whose
\* second has a path prefix, and whose third is an argument with a =
C23_Witness ==
  /\ pc = "config"
  /\ matches.pc = "returned"
  /\ matches.ARGUMENTS = <<<<"a", "=", "=">>, <<"/", "a">>, <<"a", "=", "a">>>>
  /\ matches.overrides[<<"a">>] = <<"=">>
  /\ matches.arguments = <<<<"a">>, <<"a", "=", "a">>>>
  /\ matches.current_dir = Some(<<"/">>)

\* the line is made of texts and of interpolations of one variable each
PlainLine(line) ==
  \A k \in 1..Len(line) :
    line[k].kind = "Text" \/ line[k].expression.kind = "Variable"

\* the variables the line interpolates
LineVariables(line) ==
  {line[k].expression.name : k \in {i \in 1..Len(line) : line[i].kind # "Text"}}

\* the value of a variable in the body of the recipe that runs: the evaluator
\* of a recipe has evaluated nothing and knows no assignments; its scope has
\* the evaluated top-level assignments, and the arguments have the parameters
Sourced(x) == IF x \in DOMAIN scope THEN scope[x] ELSE rr.argument_map[x]

\* the only line of the recipe that runs, which interpolates variables, has
\* been evaluated to its command
LineEvaluated ==
  /\ rr.recipe # ""
  /\ rr.command # <<>>
  /\ Len(self.lines) = 1
  /\ PlainLine(self.lines[1])
  /\ LineVariables(self.lines[1]) # {}

\* C24 as stated: a variable has its value from what is evaluated, from the
\* scope, or from the assignments, and from nothing else; in the body of a
\* recipe, whose evaluator has evaluated nothing and has no assignments, that
\* is the scope
C24_Original ==
  LineEvaluated => LineVariables(self.lines[1]) \subseteq DOMAIN scope

\* C24: a variable has the value of the first of these that has its name:
\* what is evaluated, the scope, the assignments (evaluated and kept first),
\* and the arguments of the call, and fails when none has it.  In a body the
\* value is that of the scope, which holds the evaluated assignments, or that
\* of the arguments, which hold the parameters; an assignment that is a
\* variable has the value of the assignment it names; and no run of a
\* compiled justfile meets a variable that nothing defines
C24_VariableSources ==
  /\ result.kind # "Internal"
  /\ LineEvaluated =>
       /\ LineVariables(self.lines[1]) \subseteq (DOMAIN scope \cup DOMAIN rr.argument_map)
       /\ rr.command =
            Flatten([k \in 1..Len(self.lines[1]) |->
                       IF self.lines[1][k].kind = "Text" THEN self.lines[1][k].text
                       ELSE Sourced(self.lines[1][k].expression.name)])
  /\ AssignmentsEvaluated =>
       \A m \in (DOMAIN justfile.assignments) \ DOMAIN config.overrides :
         justfile.assignments[m].kind = "Variable" =>
           scope[m] = scope[justfile.assignments[m].name]

\* the command of a line that interpolates a parameter has the argument in it,
\* and no assignment has the name of the parameter
C24_Witness ==
  /\ LineEvaluated
  /\ pc = "spawn"
  /\ LineVariables(self.lines[1]) = {"p"}
  /\ "p" \notin DOMAIN scope
  /\ rr.argument_map["p"] = <<"y">>
  /\ rr.command = <<"echo", "y">>

\* the command of a line that interpolates assignments has the values of the
\* scope in it
C24_ScopeWitness ==
  /\ LineEvaluated
  /\ pc = "spawn"
  /\ "a" \in LineVariables(self.lines[1])
  /\ "b" \in LineVariables(self.lines[1])
  /\ justfile.assignments["b"] = Variable("a")
  /\ justfile.assignments["a"].kind = "String"
  /\ rr.command = <<"echo">> \o scope["a"] \o scope["a"]

\* the body line ends in a backslash
Continues(line) ==
  /\ line # <<>>
  /\ line[Len(line)].kind = "Text"
  /\ line[Len(line)].text # <<>>
  /\ line[Len(line)].text[Len(line[Len(line)].text)] = "\\"

\* the last line of the run of body lines that begins at line i: the first
\* from i on that does not end in a backslash, or the last line of the body
RunEnd(i) ==
  CHOOSE j \in i..Len(self.lines) :
    /\ \A k \in i..(j - 1) : Continues(self.lines[k])
    /\ j = Len(self.lines) \/ ~Continues(self.lines[j])

\* the evaluated text of a line of texts and variables
LineText(line) ==
  Flatten([k \in 1..Len(line) |->
             IF line[k].kind = "Text" THEN line[k].text ELSE Sourced(line[k].expression.name)])

\* the evaluated text of a line without the backslash it ends in
Unbroken(line) ==
  IF Continues(line) THEN SubSeq(LineText(line), 1, Len(LineText(line)) - 1)
  ELSE LineText(line)

\* the texts of the lines i..j, one after the other
RunText(i, j) == Flatten([k \in 1..(j - i + 1) |-> Unbroken(self.lines[i + k - 1])])

\* the outer loop has made a command of the lines from rr.i on
RunJoined ==
  /\ pc = "lines"
  /\ rr.i <= Len(self.lines)
  /\ pc' \in {"lines", "spawn"}

\* one turn of the outer loop: the lines of the run that begins at rr.i, all
\* of them and no other, are one command, which is their evaluated texts
\* without the backslashes one after the other (and without the @ of a quiet
\* command); the next turn begins after the run; the command is started when
\* it is not empty and the run is no dry run
JoinStep ==
  RunJoined =>
    /\ rr'.i = RunEnd(rr.i) + 1
    /\ (\A k \in rr.i..RunEnd(rr.i) : PlainLine(self.lines[k])) =>
         rr'.command = IF starts_with(RunText(rr.i, RunEnd(rr.i)), "@")
                       THEN Tail(RunText(rr.i, RunEnd(rr.i)))
                       ELSE RunText(rr.i, RunEnd(rr.i))
    /\ pc' = "spawn" <=> (rr'.command # <<>> /\ ~config.dry_run)

\* a command is started once, as it was joined, unless a signal ends the
\* process before, and nothing else starts one
SpawnStep ==
  (rr.recipe # "" /\ ~self.shebang) =>
    IF pc = "spawn" /\ pc' # "exit"
    THEN /\ pc' = "status"
         /\ log' = Append(log, log'[Len(log')])
         /\ log'[Len(log')].ev = "spawn"
         /\ log'[Len(log')].text = rr.command
         /\ rr' = rr
    ELSE Cardinality({k \in 1..Len(log') : log'[k].ev = "spawn"}) = Cardinality(At("spawn"))

\* the recipe has returned with every line of its body in a command
AllJoined ==
  (pc = "lines" /\ rr.i > Len(self.lines)) => rr.i = Len(self.lines) + 1

\* C25: line by line, every maximal run of body lines of which all but the
\* last end in a continuation is one command: the evaluated lines one after
\* the other, without the backslashes and with nothing between them; a
\* continuation on the last line of the body gives a command as well; no line
\* is left out and none is in two commands
C25_Continuations == []AllJoined /\ [][JoinStep /\ SpawnStep]_vars

\* a line that ends in a backslash and the line after it, which interpolates
\* a, are the one command that is about to be started
C25_Witness ==
  /\ pc = "spawn"
  /\ Len(self.lines) = 2
  /\ Continues(self.lines[1])
  /\ rr.i = 3
  /\ rr.command = <<"x", "echo", "$", "a", "A">>

\* the only line of a body ends in a backslash, and its command, without the
\* backslash, has been started
C25_LastLine ==
  /\ pc = "status"
  /\ Len(self.lines) = 1
  /\ Continues(self.lines[1])
  /\ rr.command = <<"x">>
  /\ log[Len(log)].ev = "spawn"

\* the text s ends with the text t
EndsWith(s, t) ==
  /\ Len(s) >= Len(t)
  /\ SubSeq(s, Len(s) - Len(t) + 1, Len(s)) = t

\* a command of the recipe that runs line by line has failed
CommandFailed ==
  /\ pc = "done"
  /\ rr.recipe # ""
  /\ ~self.shebang
  /\ result.kind \in {"Code", "Signal"}
  /\ result.recipe = rr.recipe

\* C26: the error of a command that exits with another code than 0, or that
\* a signal kills, has the line of the source, counted from 1, of the last
\* body line that was joined into the command, wherever the recipe is in the
\* file and whatever blank lines, empty commands and continuations come
\* before; the command is the one started last, and it ends with the text of
\* that line
C26_LineNumbers ==
  CommandFailed =>
    /\ rr.i - 1 \in 1..Len(self.lines)
    /\ rr.i - 1 = Len(self.lines) \/ ~Continues(self.lines[rr.i - 1])
    /\ result.line_number = Some(SourceLine(rr.i - 1))
    /\ \E k \in At("spawn") :
         /\ \A m \in At("spawn") : m <= k
         /\ log[k].n = SourceLine(rr.i - 1)
         /\ PlainLine(self.lines[rr.i - 1]) =>
              \/ EndsWith(log[k].text, Unbroken(self.lines[rr.i - 1]))
              \/ Unbroken(self.lines[rr.i - 1]) = <<"@">> \o log[k].text

\* a recipe whose header is the third line of the source: its first body line
\* ends in a backslash, and the command of the two lines fails on line 5
C26_Witness ==
  /\ CommandFailed
  /\ self.line_number = 2
  /\ Len(self.lines) = 2
  /\ Continues(self.lines[1])
  /\ result.kind = "Code"
  /\ result.line_number = Some(5)

\* a blank line and an empty command come before the line whose command a
\* signal kills
C26_SkippedWitness ==
  /\ CommandFailed
  /\ result.kind = "Signal"
  /\ self.lines[1] \in {<<>>, <<Text(<<"@">>)>>}
  /\ Len(self.lines) = 2
  /\ result.line_number = Some(self.line_number + 3)
  /\ Cardinality(At("spawn")) = 1

\* the errors of the stages of Parser::justfile that follow the items, for the
\* tables the parser holds: the assignment resolver, the recipe resolver with
\* the loop over the parameters and dependencies of the recipes, the alias
\* resolver
AssignmentStage ==
  AssignmentResolver_resolve_assignments(parser.assignments, parser.assignment_tokens)

RecipeStage ==
  IF RecipeResolver_resolve_recipes(parser.recipes, parser.assignments) # NoCompilationError
  THEN RecipeResolver_resolve_recipes(parser.recipes, parser.assignments)
  ELSE Parser_checks(parser.recipes, parser.assignments)

AliasStage ==
  AliasResolver_resolve_aliases(parser.aliases, parser.recipes, parser.alias_tokens)

\* the kinds of the errors of the resolvers and of the loop over the recipes
ResolverKinds ==
  {"CircularVariableDependency", "UndefinedVariable", "UnknownDependency",
   "CircularRecipeDependency", "ParameterShadowsVariable", "DependencyHasParameters",
   "AliasShadowsRecipe", "UnknownAliasTarget"}

\* what Parser::justfile returns: the error of an item when an item is left,
\* else the error of the earliest stage that has one, else the Justfile
StageErrors ==
  parser.pc = "done" =>
    IF parser.items # <<>>
    THEN parser.error.kind \notin ResolverKinds \cup {"none"}
    ELSE IF AssignmentStage # NoCompilationError THEN parser.error = AssignmentStage
    ELSE IF RecipeStage # NoCompilationError THEN parser.error = RecipeStage
    ELSE IF AliasStage # {} THEN parser.error \in AliasStage
    ELSE parser.error = NoCompilationError

\* the place of a stage in the order of Parser::justfile
StageOrder ==
  [items |-> 1, resolve_recipes |-> 2, checks |-> 3, resolve_aliases |-> 4, done |-> 5]

\* a step of Parser::justfile goes to the next stage or returns; the tables
\* are filled by the items only, and a stage after the items begins when no
\* item is left
StageStep ==
  (parser' # parser /\ pc' = pc) =>
    /\ parser.pc # "done"
    /\ \/ parser'.pc = "done"
       \/ parser'.pc = "items" /\ parser.pc = "items" /\ parser.items # <<>>
       \/ /\ StageOrder[parser'.pc] = StageOrder[parser.pc] + 1
          /\ parser.error = NoCompilationError /\ parser'.error = NoCompilationError
    /\ parser.pc # "items" =>
         /\ parser.items = <<>>
         /\ parser'.recipes = parser.recipes
         /\ parser'.assignments = parser.assignments
         /\ parser'.aliases = parser.aliases

\* C27: the resolvers run when every item is parsed, the assignment resolver,
\* then the recipe resolver, then the alias resolver; the error returned is
\* that of an item when an item has one, else that of the earliest resolver
\* that has one, and a Justfile is returned when no stage has an error
C27_ResolverOrder == []StageErrors /\ [][StageStep]_vars

\* a source whose assignments and whose recipes both have an error, and the
\* error of the assignments is returned
C27_Witness ==
  /\ parser.pc = "done"
  /\ parser.items = <<>>
  /\ AssignmentStage # NoCompilationError
  /\ RecipeResolver_resolve_recipes(parser.recipes, parser.assignments) # NoCompilationError
  /\ parser.error = AssignmentStage

\* a source with a duplicate after an assignment that the resolver rejects:
\* the duplicate is returned
C27_DuplicateWitness ==
  /\ parser.pc = "done"
  /\ parser.items # <<>>
  /\ AssignmentStage # NoCompilationError
  /\ parser.error.kind = "DuplicateVariable"

\* a source whose recipes and whose aliases both have an error, and the error
\* of the recipes is returned
C27_AliasWitness ==
  /\ parser.pc = "done"
  /\ parser.items = <<>>
  /\ AssignmentStage = NoCompilationError
  /\ RecipeStage # NoCompilationError
  /\ AliasStage # {}
  /\ parser.error = RecipeStage

\* the first fragment of the first body line of the recipe is a text that
\* begins with #!
FirstLineShebang(recipe) ==
  /\ recipe.lines # <<>>
  /\ recipe.lines[1] # <<>>
  /\ recipe.lines[1][1].kind = "Text"
  /\ starts_with(recipe.lines[1][1].text, "#!")

\* the last body line the recipe keeps is not blank
NoTrailingBlank(recipe) == recipe.lines = <<>> \/ recipe.lines[Len(recipe.lines)] # <<>>

\* the item of the source that a recipe of the parser was made of
ItemOf(n) == source[FirstItem("recipe", n)]

\* C28: a recipe of the parser is a shebang recipe exactly when it has a body
\* line and the first fragment of its first body line is a text that begins
\* with #!, so that a shebang recipe has a first line and the line is not
\* empty; the lines of the recipe are the body lines of the source without the
\* blank lines at the end
C28_ShebangFlag ==
  \A n \in DOMAIN parser.recipes :
    /\ parser.recipes[n].shebang <=> FirstLineShebang(parser.recipes[n])
    /\ NoTrailingBlank(parser.recipes[n])
    /\ pc = "compile" =>
         /\ Len(parser.recipes[n].lines) <= Len(ItemOf(n).body)
         /\ parser.recipes[n].lines = SubSeq(ItemOf(n).body, 1, Len(parser.recipes[n].lines))
         /\ \A k \in (Len(parser.recipes[n].lines) + 1)..Len(ItemOf(n).body) :
              ItemOf(n).body[k] = <<>>

\* a shebang recipe whose body ended in a blank line, which is not kept
C28_Witness ==
  /\ pc = "compile"
  /\ "a" \in DOMAIN parser.recipes
  /\ parser.recipes["a"].shebang
  /\ Len(ItemOf("a").body) = 2
  /\ Len(parser.recipes["a"].lines) = 1

\* a recipe with #! on its second line, and a recipe whose first line begins
\* with an interpolation, are no shebang recipes
C28_SecondLineWitness ==
  /\ pc = "compile"
  /\ "a" \in DOMAIN parser.recipes
  /\ ~parser.recipes["a"].shebang
  /\ Len(parser.recipes["a"].lines) = 2
  /\ parser.recipes["a"].lines[1] # <<>>
  /\ parser.recipes["a"].lines[1][1].kind = "Expression"
  /\ parser.recipes["a"].lines[2] = <<Text(<<"#!", "sh">>)>>

\* Recipe::run, shebang mode: the justfile that runs has the flag of the
\* parser, and evaluated_lines[0] is there and begins with #! when the script
\* is written
FirstEvaluatedLine ==
  /\ \A n \in DOMAIN justfile.recipes :
       justfile.recipes[n].shebang <=> FirstLineShebang(justfile.recipes[n])
  /\ pc \in {"script_write", "script_prepare"} =>
       /\ rr.evaluated_lines # <<>>
       /\ starts_with(rr.evaluated_lines[1], "#!")

\* the body of a recipe runs: its parameters are bound
BodyRuns == rr.recipe # "" /\ rr.bound

\* where Recipe::run was entered last
RunBegin == CHOOSE k \in At("recipe") : \A m \in At("recipe") : m <= k

\* the events of a kind since Recipe::run was entered
Ran(e) == {k \in At(e) : k > RunBegin}

\* the child started at m has exited with 0 before k
ExitedZero(m, k) ==
  \E e \in (m + 1)..(k - 1) :
    /\ log[e].ev = "exit" /\ log[e].text = <<"exit">> /\ log[e].n = 0
    /\ \A j \in (m + 1)..(e - 1) : log[j].ev \notin {"exit", "spawn"}

\* a command begins at body line i
RunStart(i) == i = 1 \/ ~Continues(self.lines[i - 1])

\* the command that begins at body line i is empty and is skipped
RunEmpty(i) ==
  /\ \A k \in i..RunEnd(i) : PlainLine(self.lines[k])
  /\ RunText(i, RunEnd(i)) \in {<<>>, <<"@">>}

\* the commands of the body lines before line i that are not empty
Commands(i) == {k \in 1..(i - 1) : RunStart(k) /\ ~RunEmpty(k)}

\* an evaluation of the body has failed
EvaluationFailed == BodyRuns /\ pc = "done" /\ result.kind = "Backtick"

\* line by line: a backtick of a command is run when every command started
\* before has exited with 0, and when the next command is to be evaluated, or
\* its evaluation has failed, every command before it that is not empty has
\* been started and has exited with 0
LineOrder ==
  (BodyRuns /\ ~self.shebang) =>
    /\ \A k \in Ran("backtick") : \A m \in Ran("spawn") : m < k => ExitedZero(m, k)
    /\ (~config.dry_run /\ (pc = "lines" \/ EvaluationFailed)) =>
         /\ Cardinality(Ran("spawn")) = Cardinality(Commands(rr.i))
         /\ \A m \in Ran("spawn") : ExitedZero(m, Len(log) + 1)

\* a shebang recipe: every backtick of the body is run before the temporary
\* directory is made, the script written and the script started; the script
\* is written with every line evaluated; no part of it runs when an
\* evaluation has failed
ScriptOrder ==
  (BodyRuns /\ self.shebang) =>
    /\ \A k \in Ran("backtick") :
         \A m \in Ran("tmpdir") \cup Ran("script") \cup Ran("spawn") : k < m
    /\ Ran("script") # {} => Len(rr.evaluated_lines) = Len(self.lines)
    /\ EvaluationFailed => Ran("tmpdir") \cup Ran("script") \cup Ran("spawn") = {}

\* nothing of the body is evaluated while a command or the script is about to
\* be started or runs
EvaluationStep ==
  (BodyRuns /\ pc \notin {"lines", "shebang"}) =>
    Cardinality({k \in 1..Len(log') : log'[k].ev = "backtick"}) = Cardinality(At("backtick"))

\* C29: line by line, the interpolations of a command, and so its backticks,
\* are evaluated when every earlier command has run and has exited with 0, so
\* that the commands before a line whose backtick fails have run; in a
\* shebang recipe every line is evaluated before the script is written or
\* started, so that nothing of the script runs when an evaluation fails
C29_EvaluationOrder == [](LineOrder /\ ScriptOrder) /\ [][EvaluationStep]_vars

\* the backtick of the second line has failed after the command of the first
\* line has run and exited with 0
C29_Witness ==
  /\ EvaluationFailed
  /\ ~self.shebang
  /\ Len(self.lines) = 2
  /\ rr.i = 2
  /\ Cardinality(Ran("spawn")) = 1
  /\ Ran("backtick") # {}

\* the backtick of the second line of a shebang recipe has failed, and no
\* script was written
C29_ScriptWitness ==
  /\ EvaluationFailed
  /\ self.shebang
  /\ Ran("backtick") # {}
  /\ Ran("script") = {}

\* the stream ends with the one Eof it has
EndsWithEof(tokens) ==
  /\ tokens # <<>>
  /\ \A i \in 1..Len(tokens) : tokens[i].kind = "Eof" <=> i = Len(tokens)

\* no next().unwrap() has found the stream exhausted and no loop turns for
\* ever; while the loop of Parser::justfile turns, the Eof is in the stream;
\* the loop has ended with the Eof taken and nothing left; what is returned is
\* a Justfile or a CompilationError
StreamSafe ==
  pc = "tokens" =>
    /\ stream.result \notin {"panic", "diverges"}
    /\ stream.pc = "loop" => EndsWithEof(stream.tokens)
    /\ stream.pc = "resolve" => stream.tokens = <<>>
    /\ stream.pc = "returned" <=> stream.result \in {"Justfile", "CompilationError"}
    /\ stream.result = "Justfile" => stream.tokens = <<>>

\* a turn of the loop of Parser::justfile takes a token at least
TurnTakes ==
  (pc = "tokens" /\ stream.pc = "loop") => Len(stream'.tokens) < Len(stream.tokens)

\* C30: on a token stream that ends with its one Eof, Parser::justfile
\* returns, a Justfile or a CompilationError: no peek and no next().unwrap()
\* finds the stream exhausted, since the Eof is taken by the loop of
\* Parser::justfile or right before an error is returned, and every turn of a
\* loop takes a token
C30_TokenStream ==
  /\ []StreamSafe
  /\ [][TurnTakes]_vars
  /\ <>(pc = "tokens" => stream.pc = "returned")

\* the Eof came where another token was expected, before any recipe was
\* parsed: it was taken, nothing is left, and the error is returned
C30_Witness ==
  /\ pc = "tokens"
  /\ stream.pc = "returned"
  /\ stream.result = "CompilationError"
  /\ stream.tokens = <<>>
  /\ stream.recipes \cup stream.assignments \cup stream.aliases = {}

\* a text of three items is parsed to its end and a Justfile returned
C30_JustfileWitness ==
  /\ pc = "tokens"
  /\ stream.result = "Justfile"
  /\ stream.recipes = {<<"b">>}
  /\ stream.assignments = {<<"a">>, <<"b">>}
  /\ stream.aliases = {<<"b">>}

====
